---------------------------- MODULE Spec2Model ----------------------------
(***************************************************************************)
(* A model of the public suffix list library (src/publicsuffix.go): the    *)
(* rule table built by newList, the decomposition of a domain into its     *)
(* right-anchored label suffixes, and the lookup searchList with the       *)
(* operations PublicSuffix, HasPublicSuffix and EffectiveTLDPlusOne; and   *)
(* the store of the published table, with Release, Write, Read and         *)
(* UpdateWithListRetriever run by concurrent goroutines.                   *)
(*                                                                         *)
(* A Go string is a sequence of one-character strings; positions in the    *)
(* helper operators are Go's 0-based byte offsets, so Go's s[i] is s[i+1]. *)
(***************************************************************************)
EXTENDS Integers, Sequences, FiniteSets, TLC

VARIABLES
    rules,      \* the atomic.Value holding the published rulesInfo
    pc,         \* the caller's position: "idle" or "done"
    op,         \* the exported function the caller ran last
    domain,     \* its argument
    ret,        \* what it returned
    compared,   \* the candidates whose suffix check its searchList made
    thread,     \* the concurrent callers: each one's position and locals
    lastStore   \* history: who called rules.Store last, in which function
                \* and for which input

lookupVars == <<pc, op, domain, ret, compared>>
storeVars == <<thread, lastStore>>
vars == <<rules, pc, op, domain, ret, compared, thread, lastStore>>

-----------------------------------------------------------------------------
(* Bounds of the exploration. *)

\* longest query domain over DomainChars, in characters
MaxDomainLen == 4

\* most lines in a generated raw list
MaxLines == 2

\* the longest raw list handed to newList on its own
MaxBuildLines == 3

-----------------------------------------------------------------------------
(* Go's strings package, as used by the source. *)

\* strings.Index(s, c) for a one-character c: first offset, or -1
Index(s, c) ==
    IF \E i \in 1..Len(s) : s[i] = c
    THEN (CHOOSE i \in 1..Len(s) : s[i] = c /\ \A j \in 1..(i-1) : s[j] # c) - 1
    ELSE -1

\* strings.LastIndex(s, c) for a one-character c: last offset, or -1
LastIndex(s, c) ==
    IF \E i \in 1..Len(s) : s[i] = c
    THEN (CHOOSE i \in 1..Len(s) : s[i] = c /\ \A j \in (i+1)..Len(s) : s[j] # c) - 1
    ELSE -1

\* s[i:]
SliceFrom(s, i) == SubSeq(s, i + 1, Len(s))

\* s[:i]
SliceTo(s, i) == SubSeq(s, 1, i)

\* strings.HasSuffix
HasSuffix(s, suffix) ==
    /\ Len(suffix) <= Len(s)
    /\ SubSeq(s, Len(s) - Len(suffix) + 1, Len(s)) = suffix

\* strings.HasPrefix
HasPrefix(s, prefix) ==
    /\ Len(prefix) <= Len(s)
    /\ SubSeq(s, 1, Len(prefix)) = prefix

\* strings.Count(s, c) for a one-character c
Count(s, c) == Cardinality({i \in 1..Len(s) : s[i] = c})

\* strings.Replace(s, ".", "", -1)
RemoveDots(s) == SelectSeq(s, LAMBDA c : c # ".")


-----------------------------------------------------------------------------
(* The data types of the source. *)

\* ruleType and its three values
normal == "normal"
wildcard == "wildcard"
exception == "exception"
ruleType == {normal, wildcard, exception}

\* subdomain{name, dottedName}
subdomain(name, dottedName) == [name |-> name, dottedName |-> dottedName]

\* sync.Pool's New: make([]subdomain, 5), five zero-valued entries
PoolBufferLen == 5
newBuffer == [i \in 1..PoolBufferLen |-> subdomain(<<>>, <<>>)]

-----------------------------------------------------------------------------
(* decomposeDomain: the domain followed by each of its right-anchored      *)
(* label suffixes, appended to the buffer it is handed.                    *)

RECURSIVE decomposeLoop(_, _)
decomposeLoop(name, subdomains) ==
    LET dot == Index(name, ".") IN
    IF dot = -1
    THEN subdomains
    ELSE LET next == SliceFrom(name, dot + 1)
             sub == subdomain(RemoveDots(next), next)
         IN  decomposeLoop(next, Append(subdomains, sub))

\* faulty variant: the entry of the full domain not appended
decomposeDomain_withoutFull(d, subdomains) ==
    decomposeLoop(d, subdomains)

\* decomposeDomain(domain, subdomains)
decomposeDomain(d, subdomains) ==
    LET sub == subdomain(RemoveDots(d), d)
    IN  decomposeLoop(d, Append(subdomains, sub))

-----------------------------------------------------------------------------
(* searchList.  A candidate rule either makes searchList return, or fails  *)
(* and leaves the local variable match false (the "continue" statements).  *)

\* faulty variant: a return statement with its two bools in each other's place
Return_swapped(suffix, icann, match) ==
    [returned |-> TRUE, suffix |-> suffix, icann |-> match, found |-> icann]

\* a return statement of searchList
Return(suffix, icann, match) ==
    [returned |-> TRUE, suffix |-> suffix, icann |-> icann, found |-> match]

\* "match = false; continue"
Continue ==
    [returned |-> FALSE, suffix |-> <<>>, icann |-> FALSE, found |-> FALSE]

\* a run-time panic: an index or a slice bound out of range
Panic == [returned |-> TRUE, panic |-> TRUE]
IsPanic(r) == "panic" \in DOMAIN r

\* Go's bounds checks of s[i], s[i:] and s[:i]
IndexInRange(s, i) == 0 <= i /\ i < Len(s)
SliceInRange(s, i) == 0 <= i /\ i <= Len(s)

\* the short-circuit return and the literals of the default return
NoResult == [suffix |-> <<>>, icann |-> FALSE, found |-> FALSE]

\* faulty variant: no short-circuit
endsOnDot_never(d) == FALSE

\* the guard of the short-circuit: the domain is empty or ends on a dot
endsOnDot(d) == LastIndex(d, ".") = Len(d) - 1

\* faulty variant: match left as the previous candidate set it
matchAtCandidate_stale(previous) == previous

\* the value match has when a candidate's switch is entered
matchAtCandidate(previous) == TRUE

\* for i := 0; i < nbLevels && dot != -1; i++ { dot = LastIndex(domain[:dot], ".") }
RECURSIVE walkDots(_, _, _, _)
walkDots(d, dot, i, nbLevels) ==
    IF i < nbLevels /\ dot # -1
    THEN walkDots(d, LastIndex(SliceTo(d, dot), "."), i + 1, nbLevels)
    ELSE dot

\* faulty variant: the dots of the rule, one less than its labels
levelsOf_dots(rule) == Count(rule.DottedName, ".")

\* var nbLevels = strings.Count(rule.DottedName, ".") + 1
levelsOf(rule) == Count(rule.DottedName, ".") + 1

\* faulty variant: case wildcard without the branch for a domain shorter than the
\* rule
wildcardCase_noShortDomain(d, sub, rule, match) ==
    IF ~HasSuffix(sub.dottedName, SliceFrom(rule.DottedName, 2))
    THEN Continue
    ELSE LET nbLevels == levelsOf(rule)
             dot == walkDots(d, Len(d) - 1, 0, nbLevels)
         IN  Return(SliceFrom(d, dot + 1), rule.ICANN, match)

\* faulty variant: case wildcard answering with the rule's own tail, as a normal
\* rule does
wildcardCase_ruleTail(d, sub, rule, match) ==
    IF ~HasSuffix(sub.dottedName, SliceFrom(rule.DottedName, 2))
    THEN Continue
    ELSE IF Len(d) < Len(rule.DottedName)
    THEN IF d[1] = "." /\ d = SliceFrom(rule.DottedName, 1)
         THEN Return(d, rule.ICANN, match)
         ELSE Continue
    ELSE Return(SliceFrom(rule.DottedName, 2), rule.ICANN, match)

\* case wildcard; the loop of walkDots keeps dot within the domain
wildcardCase(d, sub, rule, match) ==
    IF ~SliceInRange(rule.DottedName, 2)
    THEN Panic
    ELSE IF ~HasSuffix(sub.dottedName, SliceFrom(rule.DottedName, 2))
    THEN Continue
    ELSE IF Len(d) < Len(rule.DottedName)
    THEN IF ~IndexInRange(d, 0)
         THEN Panic
         ELSE IF d[1] = "." /\ d = SliceFrom(rule.DottedName, 1)
         THEN Return(d, rule.ICANN, match)
         ELSE Continue
    ELSE LET nbLevels == levelsOf(rule)
             dot == walkDots(d, Len(d) - 1, 0, nbLevels)
         IN  Return(SliceFrom(d, dot + 1), rule.ICANN, match)

\* case exception
exceptionCase(d, sub, rule, match) ==
    IF ~SliceInRange(rule.DottedName, 1)
    THEN Panic
    ELSE IF ~HasSuffix(sub.dottedName, SliceFrom(rule.DottedName, 1))
    THEN Continue
    ELSE LET dot == Index(rule.DottedName, ".")
         IN  Return(SliceFrom(rule.DottedName, dot + 1), rule.ICANN, match)

\* faulty variant: a normal rule taken on the signature hit alone
normalCase_signatureOnly(d, sub, rule, match) ==
    Return(rule.DottedName, rule.ICANN, match)

\* default (a normal rule)
normalCase(d, sub, rule, match) ==
    IF ~HasSuffix(sub.dottedName, rule.DottedName)
    THEN Continue
    ELSE Return(rule.DottedName, rule.ICANN, match)

\* switch rule.RuleType
ruleSwitch(d, sub, rule, match) ==
    CASE rule.RuleType = wildcard -> wildcardCase(d, sub, rule, match)
      [] rule.RuleType = exception -> exceptionCase(d, sub, rule, match)
      [] OTHER -> normalCase(d, sub, rule, match)

\* faulty variant: the loop over the candidates left at the first one whose
\* suffix check fails
rulesLoop_breakOnFailure(d, sub, rs, j, match) ==
    IF j > Len(rs)
    THEN Continue
    ELSE ruleSwitch(d, sub, rs[j], matchAtCandidate(match))

\* for _, rule := range rules
RECURSIVE rulesLoop(_, _, _, _, _)
rulesLoop(d, sub, rs, j, match) ==
    IF j > Len(rs)
    THEN Continue
    ELSE LET r == ruleSwitch(d, sub, rs[j], matchAtCandidate(match))
         IN  IF r.returned THEN r ELSE rulesLoop(d, sub, rs, j + 1, r.found)

\* faulty variant: the levels probed from the last label up to the full domain
probeOrder_shortestFirst(subdomains) ==
    [i \in 1..Len(subdomains) |-> subdomains[Len(subdomains) + 1 - i]]

\* faulty variant: the levels probed a second time after the last one
probeOrder_twice(subdomains) == subdomains \o subdomains

\* the order in which the decomposed levels are probed
probeOrder(subdomains) == subdomains

\* for _, sub := range subdomains
RECURSIVE levelsLoop(_, _, _, _)
levelsLoop(rulesInfo, d, subdomains, i) ==
    IF i > Len(subdomains)
    THEN Continue
    ELSE LET sub == subdomains[i]
             found == sub.name \in DOMAIN rulesInfo.Map
             r == IF found
                  THEN rulesLoop(d, sub, rulesInfo.Map[sub.name], 1, FALSE)
                  ELSE Continue
         IN  IF r.returned THEN r ELSE levelsLoop(rulesInfo, d, subdomains, i + 1)

\* faulty variant: the default return without the cut at the last dot
defaultRule_wholeDomain(d) == [suffix |-> d, icann |-> FALSE, found |-> FALSE]

\* the default return: "If no rules match, the prevailing rule is *"
defaultRule(d) ==
    LET dot == LastIndex(d, ".")
    IN  [suffix |-> SliceFrom(d, dot + 1), icann |-> FALSE, found |-> FALSE]

\* searchList(domain), against the table it loads once and with the buffer
\* the pool hands it
searchList(rulesInfo, pooled, d) ==
    IF endsOnDot(d)
    THEN NoResult
    ELSE LET buffer == SliceTo(pooled, 0)
             subdomains == decomposeDomain(d, buffer)
             r == levelsLoop(rulesInfo, d, probeOrder(subdomains), 1)
         IN  IF r.returned
             THEN IF IsPanic(r)
                  THEN Panic
                  ELSE [suffix |-> r.suffix, icann |-> r.icann, found |-> r.found]
             ELSE defaultRule(d)

\* The suffix checks of a call.  Every candidate whose switch is entered
\* makes one call of strings.HasSuffix, the first statement of its case; a
\* check is recorded as the offset at which its level starts in the domain
\* and the candidate's position in the list of the level's signature.
noneCompared == <<>>

\* the positions whose switch "for _, rule := range rules" enters, from
\* position j on: the loop is left at the first candidate that returns
RECURSIVE rulesCompared(_, _, _, _)
rulesCompared(d, sub, rs, j) ==
    IF j > Len(rs)
    THEN <<>>
    ELSE IF ruleSwitch(d, sub, rs[j], matchAtCandidate(FALSE)).returned
    THEN <<j>>
    ELSE <<j>> \o rulesCompared(d, sub, rs, j + 1)

\* the checks "for _, sub := range subdomains" makes, from level i on
RECURSIVE levelsCompared(_, _, _, _)
levelsCompared(rulesInfo, d, subdomains, i) ==
    IF i > Len(subdomains)
    THEN <<>>
    ELSE LET sub == subdomains[i]
             found == sub.name \in DOMAIN rulesInfo.Map
             rs == IF found THEN rulesInfo.Map[sub.name] ELSE <<>>
             js == rulesCompared(d, sub, rs, 1)
             here == [n \in 1..Len(js) |->
                         [level |-> Len(d) - Len(sub.dottedName), pos |-> js[n]]]
         IN  IF rulesLoop(d, sub, rs, 1, FALSE).returned
             THEN here
             ELSE here \o levelsCompared(rulesInfo, d, subdomains, i + 1)

\* the checks of searchList(domain), in the order they are made
suffixComparisons(rulesInfo, pooled, d) ==
    IF endsOnDot(d)
    THEN noneCompared
    ELSE LET buffer == SliceTo(pooled, 0)
             subdomains == decomposeDomain(d, buffer)
         IN  levelsCompared(rulesInfo, d, probeOrder(subdomains), 1)

-----------------------------------------------------------------------------
(* newList: the table built from the lines of a raw list.                  *)

\* icannBegin and icannEnd.  A marker is one token of a line, so that
\* strings.Contains(line, marker) is the presence of the token.
icannBegin == "BEGIN ICANN DOMAINS"
icannEnd == "END ICANN DOMAINS"

\* strings.Contains(line, marker)
Contains(line, marker) == \E i \in 1..Len(line) : line[i] = marker

\* strings.TrimSpace
isSpace(c) == c \in {" ", "\t"}
RECURSIVE TrimLeft(_)
TrimLeft(s) == IF s # <<>> /\ isSpace(Head(s)) THEN TrimLeft(Tail(s)) ELSE s
RECURSIVE TrimRight(_)
TrimRight(s) ==
    IF s # <<>> /\ isSpace(s[Len(s)]) THEN TrimRight(SliceTo(s, Len(s) - 1)) ELSE s
TrimSpace(s) == TrimRight(TrimLeft(s))

\* the characters validSuffixRE accepts: [a-z0-9_!*-.]
validChars ==
    {"a", "b", "c", "d", "e", "f", "g", "h", "i", "j", "k", "l", "m",
     "n", "o", "p", "q", "r", "s", "t", "u", "v", "w", "x", "y", "z",
     "0", "1", "2", "3", "4", "5", "6", "7", "8", "9",
     "_", "!", "*", "-", "."}

\* validSuffixRE.MatchString(line): ^[a-z0-9_!*-.]+$
validSuffixRE(line) == line # <<>> /\ \A i \in 1..Len(line) : line[i] \in validChars

\* the characters of the model that are ASCII; "é" is the one that is not
asciiChars == validChars \cup {"A", "B", "/", " ", "\t", "=", icannBegin, icannEnd}

\* the ACE prefix of a Punycode label, and the characters that are
\* Punycode digits
acePrefix == <<"x", "n", "-", "-">>
punyDigits == validChars \ {"_", "!", "*", "-", "."}

\* idna: a label with the ACE prefix is decoded first; decoding fails when
\* the part after the label's last "-" holds a character that is no digit
aceFails(label) ==
    /\ HasPrefix(label, acePrefix)
    /\ LET rest == SliceFrom(label, Len(acePrefix))
           encoded == SliceFrom(rest, LastIndex(rest, "-") + 1)
       IN  \E i \in 1..Len(encoded) : encoded[i] \notin punyDigits

\* idna per label: a label of ASCII characters is kept, the label "é" becomes
\* its Punycode form xn--9ca; any other label with a non-ASCII character is
\* outside the model's lists
labelToASCII(label) ==
    IF \A i \in 1..Len(label) : label[i] \in asciiChars
    THEN label
    ELSE acePrefix \o <<"9", "c", "a">>

\* idna.ToASCII(line): the labels between the dots, each converted; err is
\* set when a label fails
RECURSIVE ToASCII(_)
ToASCII(line) ==
    LET dot == Index(line, ".") IN
    IF dot = -1
    THEN [line |-> labelToASCII(line), err |-> aceFails(line)]
    ELSE LET label == SliceTo(line, dot)
             rest == ToASCII(SliceFrom(line, dot + 1))
         IN  [line |-> labelToASCII(label) \o <<".">> \o rest.line,
              err |-> aceFails(label) \/ rest.err]

\* the rule of an accepted line and the key it is stored under
classify(line, icann) ==
    LET concatenatedLine == RemoveDots(line) IN
    CASE HasPrefix(concatenatedLine, <<"*">>) ->
            [rule |-> [DottedName |-> line, RuleType |-> wildcard, ICANN |-> icann],
             mapKey |-> SliceFrom(concatenatedLine, 1)]
      [] HasPrefix(concatenatedLine, <<"!">>) ->
            [rule |-> [DottedName |-> line, RuleType |-> exception, ICANN |-> icann],
             mapKey |-> SliceFrom(concatenatedLine, 1)]
      [] OTHER ->
            [rule |-> [DottedName |-> line, RuleType |-> normal, ICANN |-> icann],
             mapKey |-> concatenatedLine]

\* make(map[string][]rule)
emptyMap == [k \in {} |-> <<>>]

\* faulty variant: the rule put in the place of the rules of its key
appendRule_overwrite(m, mapKey, rule) ==
    [k \in DOMAIN m \cup {mapKey} |-> IF k = mapKey THEN <<rule>> ELSE m[k]]

\* tempRulesMap[mapKey] = append(tempRulesMap[mapKey], rule)
appendRule(m, mapKey, rule) ==
    IF mapKey \in DOMAIN m
    THEN [m EXCEPT ![mapKey] = Append(@, rule)]
    ELSE [k \in DOMAIN m \cup {mapKey} |-> IF k = mapKey THEN <<rule>> ELSE m[k]]

\* faulty variant: the loop ending at a rejected line with the rules parsed
\* before it and no error
RECURSIVE scanLoop_keepParsed(_, _, _, _)
scanLoop_keepParsed(lines, i, icann, tempRulesMap) ==
    IF i > Len(lines)
    THEN [err |-> FALSE, Map |-> tempRulesMap]
    ELSE LET line == TrimSpace(lines[i]) IN
         IF Contains(line, icannBegin)
         THEN scanLoop_keepParsed(lines, i + 1, TRUE, tempRulesMap)
         ELSE IF Contains(line, icannEnd)
         THEN scanLoop_keepParsed(lines, i + 1, FALSE, tempRulesMap)
         ELSE IF line = <<>> \/ HasPrefix(line, <<"/", "/">>)
         THEN scanLoop_keepParsed(lines, i + 1, icann, tempRulesMap)
         ELSE LET ascii == ToASCII(line) IN
              IF ascii.err \/ ~validSuffixRE(ascii.line)
              THEN [err |-> FALSE, Map |-> tempRulesMap]
              ELSE LET c == classify(ascii.line, icann)
                   IN  scanLoop_keepParsed(lines, i + 1, icann,
                                           appendRule(tempRulesMap, c.mapKey, c.rule))

\* faulty variant: the loop skipping a comment line before it looks for a
\* marker in it
RECURSIVE scanLoop_commentFirst(_, _, _, _)
scanLoop_commentFirst(lines, i, icann, tempRulesMap) ==
    IF i > Len(lines)
    THEN [err |-> FALSE, Map |-> tempRulesMap]
    ELSE LET line == TrimSpace(lines[i]) IN
         IF line = <<>> \/ HasPrefix(line, <<"/", "/">>)
         THEN scanLoop_commentFirst(lines, i + 1, icann, tempRulesMap)
         ELSE IF Contains(line, icannBegin)
         THEN scanLoop_commentFirst(lines, i + 1, TRUE, tempRulesMap)
         ELSE IF Contains(line, icannEnd)
         THEN scanLoop_commentFirst(lines, i + 1, FALSE, tempRulesMap)
         ELSE LET ascii == ToASCII(line) IN
              IF ascii.err
              THEN [err |-> TRUE, Map |-> emptyMap]
              ELSE IF ~validSuffixRE(ascii.line)
              THEN [err |-> TRUE, Map |-> emptyMap]
              ELSE LET c == classify(ascii.line, icann)
                   IN  scanLoop_commentFirst(lines, i + 1, icann,
                                             appendRule(tempRulesMap, c.mapKey, c.rule))

\* for scanner.Scan() { ... }: err is set when a line is rejected
RECURSIVE scanLoop(_, _, _, _)
scanLoop(lines, i, icann, tempRulesMap) ==
    IF i > Len(lines)
    THEN [err |-> FALSE, Map |-> tempRulesMap]
    ELSE LET line == TrimSpace(lines[i]) IN
         IF Contains(line, icannBegin)
         THEN scanLoop(lines, i + 1, TRUE, tempRulesMap)
         ELSE IF Contains(line, icannEnd)
         THEN scanLoop(lines, i + 1, FALSE, tempRulesMap)
         ELSE IF line = <<>> \/ HasPrefix(line, <<"/", "/">>)
         THEN scanLoop(lines, i + 1, icann, tempRulesMap)
         ELSE LET ascii == ToASCII(line) IN
              IF ascii.err
              THEN [err |-> TRUE, Map |-> emptyMap]
              ELSE IF ~validSuffixRE(ascii.line)
              THEN [err |-> TRUE, Map |-> emptyMap]
              ELSE LET c == classify(ascii.line, icann)
                   IN  scanLoop(lines, i + 1, icann,
                                appendRule(tempRulesMap, c.mapKey, c.rule))

\* newList(r, release): the table, or an error and no table
newList(r, release) ==
    LET s == scanLoop(r, 1, FALSE, emptyMap)
    IN  [err |-> s.err, rulesInfo |-> [Map |-> s.Map, Release |-> release]]

-----------------------------------------------------------------------------
(* The exported lookups. *)

\* PublicSuffix(domain)
publicSuffix(rulesInfo, pooled, d) ==
    LET r == searchList(rulesInfo, pooled, d)
    IN  IF IsPanic(r) THEN Panic ELSE [suffix |-> r.suffix, icann |-> r.icann]

\* HasPublicSuffix(domain)
hasPublicSuffix(rulesInfo, pooled, d) ==
    LET r == searchList(rulesInfo, pooled, d)
    IN  IF IsPanic(r) THEN Panic ELSE [found |-> r.found]

\* the two errors of EffectiveTLDPlusOne, and nil
errCannotDerive == "publicsuffix: cannot derive eTLD+1 for domain"
errInvalidSuffix == "publicsuffix: invalid public suffix for domain"
nil == "nil"

\* faulty variant: the body of EffectiveTLDPlusOne without the check of the
\* character before the suffix
plusOne_noSeparatorCheck(d, suffix) ==
    IF Len(d) <= Len(suffix)
    THEN [value |-> <<>>, err |-> errCannotDerive]
    ELSE LET i == Len(d) - Len(suffix) - 1
         IN  [value |-> SliceFrom(d, 1 + LastIndex(SliceTo(d, i), ".")),
              err |-> nil]

\* faulty variant: the body of EffectiveTLDPlusOne without the comparison of
\* the two lengths
plusOne_noLengthCheck(d, suffix) ==
    LET i == Len(d) - Len(suffix) - 1 IN
    IF ~IndexInRange(d, i)
    THEN Panic
    ELSE IF d[i + 1] # "."
    THEN [value |-> <<>>, err |-> errInvalidSuffix]
    ELSE [value |-> SliceFrom(d, 1 + LastIndex(SliceTo(d, i), ".")),
          err |-> nil]

\* faulty variant: the body of EffectiveTLDPlusOne cutting the domain after
\* the first dot left of the suffix and not after the last one
plusOne_firstDot(d, suffix) ==
    IF Len(d) <= Len(suffix)
    THEN [value |-> <<>>, err |-> errCannotDerive]
    ELSE LET i == Len(d) - Len(suffix) - 1 IN
         IF ~IndexInRange(d, i)
         THEN Panic
         ELSE IF d[i + 1] # "."
         THEN [value |-> <<>>, err |-> errInvalidSuffix]
         ELSE [value |-> SliceFrom(d, 1 + Index(SliceTo(d, i), ".")),
               err |-> nil]

\* the body of EffectiveTLDPlusOne once PublicSuffix has returned suffix
plusOne(d, suffix) ==
    IF Len(d) <= Len(suffix)
    THEN [value |-> <<>>, err |-> errCannotDerive]
    ELSE LET i == Len(d) - Len(suffix) - 1 IN
         IF ~IndexInRange(d, i)
         THEN Panic
         ELSE IF d[i + 1] # "."
         THEN [value |-> <<>>, err |-> errInvalidSuffix]
         ELSE [value |-> SliceFrom(d, 1 + LastIndex(SliceTo(d, i), ".")),
               err |-> nil]

\* EffectiveTLDPlusOne(domain)
effectiveTLDPlusOne(rulesInfo, pooled, d) ==
    LET r == publicSuffix(rulesInfo, pooled, d)
    IN  IF IsPanic(r) THEN Panic ELSE plusOne(d, r.suffix)

-----------------------------------------------------------------------------
(* The inputs of the exploration. *)

\* query domains: every string over these characters up to MaxDomainLen
DomainChars == {"a", "b", "."}
GeneratedDomains == UNION {[1..n -> DomainChars] : n \in 0..MaxDomainLen}

\* the query domains of the tests that the excerpts below decide
TestDomains ==
    { <<"u", "k">>,
      <<"c", "o", ".", "u", "k">>,
      <<"b", ".", "c", "o", ".", "u", "k">>,
      <<"c", "i", "t", "y", ".", "k", "o", "b", "e", ".", "j", "p">>,
      <<"w", "w", "w", ".", "c", "i", "t", "y", ".", "k", "o", "b", "e", ".", "j", "p">>,
      <<"c", ".", "k", "o", "b", "e", ".", "j", "p">>,
      <<"b", ".", "c", ".", "k", "o", "b", "e", ".", "j", "p">>,
      <<".", "c", "k">>,
      <<"c", "k">>,
      <<"a", ".", "c", "k">>,
      <<"t", "e", "s", "t", ".", "c", "k">>,
      <<"b", ".", "t", "e", "s", "t", ".", "c", "k">>,
      <<"w", "w", "w", ".", "c", "k">>,
      <<"w", "w", "w", ".", "w", "w", "w", ".", "c", "k">>,
      <<"i", ".", "n", "g">>,
      <<"x", ".", "i", "n", "g">>,
      <<"n", "p">>,
      <<"c", "o", "m">>,
      <<"e", "x", "a", "m", "p", "l", "e", ".", "c", "o", "m">>,
      <<"b", ".", "e", "x", "a", "m", "p", "l", "e", ".", "c", "o", "m">>,
      <<"f", "r", "e", "e", ".">>,
      <<"n", "o", "s", "u", "c", "h", "t", "l", "d">>,
      <<"f", "o", "o", ".", "n", "o", "s", "u", "c", "h", "t", "l", "d">> }

Domains == GeneratedDomains \cup TestDomains

\* the lines a generated raw list is made of
LinePool ==
    { <<"/", "/", " ", "=", "=", "=", icannBegin, "=", "=", "=">>,
      <<"a">>,
      <<"b", ".", "a">>,
      <<"*", ".", "a">>,
      <<"!", "b", ".", "a">>,
      <<"b", "a">>,
      <<"*", "a">>,
      <<"!", "a">> }
GeneratedLists == UNION {[1..n -> LinePool] : n \in 0..MaxLines}

\* an excerpt of the public suffix list with the rules the tests rely on
ExcerptList ==
    << <<"/", "/", " ", "=", "=", "=", icannBegin, "=", "=", "=">>,
       <<"c", "o", "m">>,
       <<"u", "k">>,
       <<"c", "o", ".", "u", "k">>,
       <<"*", ".", "k", "o", "b", "e", ".", "j", "p">>,
       <<"!", "c", "i", "t", "y", ".", "k", "o", "b", "e", ".", "j", "p">>,
       <<"i", ".", "n", "g">>,
       <<"i", "n", "g">>,
       <<"*", ".", "n", "p">>,
       <<"/", "/", " ", "=", "=", "=", icannEnd, "=", "=", "=">>,
       <<>>,
       <<"u", "k", ".", "c", "o", "m">> >>

\* a list whose only rule is the wildcard *.ck
CkOnlyList ==
    << <<"*", ".", "c", "k">> >>

\* the .ck rules of the public suffix list
CkList ==
    << <<"/", "/", " ", "=", "=", "=", icannBegin, "=", "=", "=">>,
       <<"*", ".", "c", "k">>,
       <<"!", "w", "w", "w", ".", "c", "k">> >>

\* ing and i.ng in the order opposite to the excerpt's
IngFirstList ==
    << <<"i", "n", "g">>,
       <<"i", ".", "n", "g">> >>

\* the .ck rules after a rule for ck itself
CkTldList ==
    << <<"c", "k">>,
       <<"*", ".", "c", "k">>,
       <<"!", "w", "w", "w", ".", "c", "k">> >>

\* a list whose only rule is the one-character wildcard
StarList ==
    << <<"*">> >>

TestLists == {ExcerptList, CkOnlyList, CkList, IngFirstList, CkTldList, StarList}

RawLists == GeneratedLists \cup TestLists

\* the release tag of the tables looked up in
Releases == {"release_test"}

\* every table newList builds from a raw list
BuiltTables ==
    {newList(r, release).rulesInfo :
        r \in {l \in RawLists : ~newList(l, "").err}, release \in Releases}

\* what subdomainPool.Get() may hand out: a new buffer, or one a finished
\* lookup has put back
PooledBuffers == {newBuffer, decomposeDomain(<<"b", ".", "a">>, <<>>)}

-----------------------------------------------------------------------------
(* Write and Read: the table as JSON inside a zlib stream.                 *)

\* a byte that is not valid UTF-8, and the rune encoding/json replaces it
\* with
invalidByte == "0xFF"
replacementRune == "U+FFFD"

\* encoding/json writes a Go string coerced to valid UTF-8
toValidUTF8(s) ==
    [i \in 1..Len(s) |-> IF s[i] = invalidByte THEN replacementRune ELSE s[i]]

\* ruleType is an int: normal, wildcard and exception are 0, 1 and 2
ruleTypeNumber(t) ==
    CASE t = normal -> 0
      [] t = wildcard -> 1
      [] t = exception -> 2

\* the ruleType a JSON number decodes to
ruleTypeOfNumber(n) ==
    CASE n = 0 -> normal
      [] n = 1 -> wildcard
      [] n = 2 -> exception

\* json.NewEncoder(w).Encode(rulesInfo): the object with the members Map
\* and Release, every string coerced, every RuleType a number
jsonEncode(rulesInfo) ==
    [Map |->
        [k \in {toValidUTF8(key) : key \in DOMAIN rulesInfo.Map} |->
            LET key == CHOOSE key \in DOMAIN rulesInfo.Map : toValidUTF8(key) = k
                rs == rulesInfo.Map[key]
            IN  [j \in 1..Len(rs) |->
                    [DottedName |-> toValidUTF8(rs[j].DottedName),
                     RuleType |-> ruleTypeNumber(rs[j].RuleType),
                     ICANN |-> rs[j].ICANN]]],
     Release |-> toValidUTF8(rulesInfo.Release)]

\* text that is no JSON value
notJSON == [invalid |-> "json"]

\* json.NewDecoder(r).Decode(&tempRulesInfo)
jsonDecode(text) ==
    IF text = notJSON
    THEN [err |-> TRUE, rulesInfo |-> [Map |-> emptyMap, Release |-> <<>>]]
    ELSE [err |-> FALSE,
          rulesInfo |->
            [Map |->
                [k \in DOMAIN text.Map |->
                    [j \in 1..Len(text.Map[k]) |->
                        [DottedName |-> text.Map[k][j].DottedName,
                         RuleType |-> ruleTypeOfNumber(text.Map[k][j].RuleType),
                         ICANN |-> text.Map[k][j].ICANN]]],
             Release |-> text.Release]]

\* a zlib stream holding text, and bytes that are no zlib stream
zlibStream(text) == [zlib |-> TRUE, text |-> text]
notZlib == [zlib |-> FALSE, text |-> notJSON]

\* the errors of Read
errZlib == "zlib error"
errJSON == "json error"

\* faulty variant: Write loading the table a second time for its release
writeSource_reload(loaded) == [Map |-> loaded.Map, Release |-> rules.Release]

\* the value Write hands to the encoder: what its one load() returned
writeSource(loaded) == loaded

\* Write(w): the bytes w receives
write(rulesInfo) == zlibStream(jsonEncode(rulesInfo))

\* Read(r) up to rules.Store: the error, or the table it is about to store
read(r) ==
    IF ~r.zlib
    THEN [err |-> errZlib, rulesInfo |-> [Map |-> emptyMap, Release |-> <<>>]]
    ELSE LET decoded == jsonDecode(r.text) IN
         IF decoded.err
         THEN [err |-> errJSON, rulesInfo |-> decoded.rulesInfo]
         ELSE [err |-> nil, rulesInfo |-> decoded.rulesInfo]

-----------------------------------------------------------------------------
(* UpdateWithListRetriever: the steps between its accesses to the store.   *)

\* a ListRetriever: what GetLatestReleaseTag and GetList return
ListRetriever(release, tagErr, rawList, listErr) ==
    [Release |-> release, TagErr |-> tagErr, RawList |-> rawList, ListErr |-> listErr]

\* the errors of UpdateWithListRetriever
errLastCommit == "error while retrieving last commit information"
errLastRelease == "error while retrieving Public Suffix List last release"
errNewList == "error of newList"

\* faulty variant: the release compared is never the latest
sameRelease_never(rulesInfo, latestTag) == FALSE

\* if load().Release == latestTag
sameRelease(rulesInfo, latestTag) == rulesInfo.Release = latestTag

\* faulty variant: the table built under the release of the published table
updateBuild_staleRelease(rawList, latestTag) == newList(rawList, rules.Release)

\* rulesInfo, err = newList(rawList, latestTag)
updateBuild(rawList, latestTag) == newList(rawList, latestTag)

\* UpdateWithListRetriever from its load() to its return or its
\* rules.Store: the error, or the table it is about to store.  gotList
\* records whether GetList was called
updateSteps(current, lr, latestTag) ==
    IF sameRelease(current, latestTag)
    THEN [returns |-> TRUE, err |-> nil, gotList |-> FALSE, rulesInfo |-> current]
    ELSE IF lr.ListErr
    THEN [returns |-> TRUE, err |-> errLastRelease, gotList |-> TRUE, rulesInfo |-> current]
    ELSE LET built == updateBuild(lr.RawList, latestTag) IN
         IF built.err
         THEN [returns |-> TRUE, err |-> errNewList, gotList |-> TRUE, rulesInfo |-> current]
         ELSE [returns |-> FALSE, err |-> nil, gotList |-> TRUE, rulesInfo |-> built.rulesInfo]

-----------------------------------------------------------------------------
(* The inputs of the concurrent exploration. *)

\* the goroutines that call the package
Threads == {"g1", "g2"}

\* release tags: the one of the compiled-in list, a newer one, the empty
\* one, and one that is not valid UTF-8
tagCompiled == <<"v", "0">>
tagNewer == <<"v", "1">>
tagEmpty == <<>>
tagNotUTF8 == <<"v", invalidByte>>

\* raw lists: the compiled-in one, an empty one, a newer one, and two whose
\* second line is rejected, by validSuffixRE and by idna.ToASCII
ListCompiled ==
    << <<"/", "/", " ", "=", "=", "=", icannBegin, "=", "=", "=">>,
       <<"*", ".", "a">> >>
ListEmpty == << >>
ListNewer == << <<"a">> >>
ListBadSuffix == << <<"b", ".", "a">>, <<"A">> >>
ListBadASCII == << <<"b", ".", "a">>, <<"x", "n", "-", "-", "!">> >>

\* the table compiled into the package, which init() reads
InitialTable == read(write(newList(ListCompiled, tagCompiled).rulesInfo)).rulesInfo

\* the list retrievers a caller may pass
Retrievers ==
    { ListRetriever(tagNewer, FALSE, ListEmpty, FALSE),
      ListRetriever(tagCompiled, FALSE, ListNewer, FALSE),
      ListRetriever(tagEmpty, FALSE, ListNewer, FALSE),
      ListRetriever(tagNotUTF8, FALSE, ListNewer, FALSE),
      ListRetriever(tagEmpty, TRUE, ListEmpty, FALSE),
      ListRetriever(tagNewer, FALSE, ListEmpty, TRUE),
      ListRetriever(tagNewer, FALSE, ListBadSuffix, FALSE),
      ListRetriever(tagNewer, FALSE, ListBadASCII, FALSE) }

\* the domains looked up while the store changes
StoreDomains == { <<"b", ".", "a">>, <<"a", ".">> }

\* the lookups, and the functions that read the store
LookupOps == {"PublicSuffix", "HasPublicSuffix", "EffectiveTLDPlusOne"}
ReaderOps == LookupOps \cup {"Release", "Write"}
WriterOps == {"Read", "UpdateWithListRetriever"}

\* a goroutine outside every call
noArg == [none |-> TRUE]
noTable == [none |-> TRUE]
noTag == [none |-> TRUE]
idleThread ==
    [pc |-> "idle", op |-> "none", arg |-> noArg, latestTag |-> noTag,
     loaded |-> noTable, built |-> noTable, ret |-> [none |-> TRUE],
     stores |-> 0, gotList |-> FALSE, since |-> "none", seen |-> {}]

-----------------------------------------------------------------------------
(* The state machine: a caller runs one exported lookup at a time against  *)
(* the published table.                                                    *)

\* faulty variant: the table compiled into the package, whatever is published
load_compiled == InitialTable

\* load(): the rulesInfo the atomic.Value holds
load == rules

noDomain == <<>>
noReturn == [none |-> TRUE]

Init ==
    /\ rules \in BuiltTables
    /\ pc = "idle"
    /\ op = "none"
    /\ domain = noDomain
    /\ ret = noReturn
    /\ compared = noneCompared
    /\ thread = [t \in Threads |-> idleThread]
    /\ lastStore = [by |-> "init", op |-> "init", input |-> noArg]

\* each lookup is run by an idle caller on any domain, with any buffer the
\* pool may hand out
SearchList ==
    /\ pc = "idle"
    /\ \E d \in Domains, pooled \in PooledBuffers :
          /\ pc' = "done"
          /\ op' = "searchList"
          /\ domain' = d
          /\ ret' = searchList(load, pooled, d)
          /\ compared' = suffixComparisons(load, pooled, d)
    /\ UNCHANGED <<rules, storeVars>>

PublicSuffix ==
    /\ pc = "idle"
    /\ \E d \in Domains, pooled \in PooledBuffers :
          /\ pc' = "done"
          /\ op' = "PublicSuffix"
          /\ domain' = d
          /\ ret' = publicSuffix(load, pooled, d)
          /\ compared' = suffixComparisons(load, pooled, d)
    /\ UNCHANGED <<rules, storeVars>>

HasPublicSuffix ==
    /\ pc = "idle"
    /\ \E d \in Domains, pooled \in PooledBuffers :
          /\ pc' = "done"
          /\ op' = "HasPublicSuffix"
          /\ domain' = d
          /\ ret' = hasPublicSuffix(load, pooled, d)
          /\ compared' = suffixComparisons(load, pooled, d)
    /\ UNCHANGED <<rules, storeVars>>

EffectiveTLDPlusOne ==
    /\ pc = "idle"
    /\ \E d \in Domains, pooled \in PooledBuffers :
          /\ pc' = "done"
          /\ op' = "EffectiveTLDPlusOne"
          /\ domain' = d
          /\ ret' = effectiveTLDPlusOne(load, pooled, d)
          /\ compared' = suffixComparisons(load, pooled, d)
    /\ UNCHANGED <<rules, storeVars>>

\* the caller takes the result and is ready for its next call
Finish ==
    /\ pc = "done"
    /\ pc' = "idle"
    /\ op' = "none"
    /\ domain' = noDomain
    /\ ret' = noReturn
    /\ compared' = noneCompared
    /\ UNCHANGED <<rules, storeVars>>

Next ==
    \/ SearchList
    \/ PublicSuffix
    \/ HasPublicSuffix
    \/ EffectiveTLDPlusOne
    \/ Finish

Spec == Init /\ [][Next]_vars

-----------------------------------------------------------------------------
(* The concurrent state machine: goroutines call the exported functions    *)
(* while others do, one step per access to the published table.  A call is *)
(* entered by a goroutine that is outside a call or has its last result.   *)

\* what a reading function returns for the table its load() returned
resultOf(o, rulesInfo, pooled, arg) ==
    CASE o = "PublicSuffix" -> publicSuffix(rulesInfo, pooled, arg)
      [] o = "HasPublicSuffix" -> hasPublicSuffix(rulesInfo, pooled, arg)
      [] o = "EffectiveTLDPlusOne" -> effectiveTLDPlusOne(rulesInfo, pooled, arg)
      [] o = "Release" -> [release |-> rulesInfo.Release]
      [] o = "Write" -> [bytes |-> write(writeSource(rulesInfo)), err |-> nil]

\* the bytes a caller may hand to Read: no zlib stream, a zlib stream of
\* text that is no JSON, or what a Write has written
ReadInputs ==
    {notZlib, zlibStream(notJSON)}
        \cup {thread[u].ret.bytes :
                u \in {v \in Threads : thread[v].pc = "done" /\ thread[v].op = "Write"}}

StoreInit ==
    /\ rules = InitialTable
    /\ pc = "idle"
    /\ op = "none"
    /\ domain = noDomain
    /\ ret = noReturn
    /\ compared = noneCompared
    /\ thread = [t \in Threads |-> idleThread]
    /\ lastStore = [by |-> "init", op |-> "init", input |-> noArg]

Ready(t) == thread[t].pc \in {"idle", "done"}

\* history: the goroutine whose update made the last store and has returned
Returned ==
    IF /\ lastStore.by \in Threads
       /\ thread[lastStore.by].pc = "done"
       /\ thread[lastStore.by].op = "UpdateWithListRetriever"
       /\ thread[lastStore.by].stores = 1
    THEN lastStore.by
    ELSE "none"

\* t enters a call with the locals frame; history: since is the goroutine
\* whose update had returned before, and a new call of t ends that for the
\* others; seen, of a reading function that has not returned, is every
\* table published at some instant of the call
Begin(t, frame) ==
    thread' =
        [u \in Threads |->
            IF u = t
            THEN [frame EXCEPT !.since = IF Returned = t THEN "none" ELSE Returned,
                               !.seen = IF frame.pc = "load" THEN {rules} ELSE {}]
            ELSE [thread[u] EXCEPT !.since = IF @ = t THEN "none" ELSE @]]

\* PublicSuffix, HasPublicSuffix, EffectiveTLDPlusOne: into searchList, which
\* returns at once for a domain that ends on a dot
CallLookup(t) ==
    /\ Ready(t)
    /\ \E o \in LookupOps, d \in StoreDomains :
          Begin(t, IF endsOnDot(d)
                   THEN [idleThread EXCEPT !.pc = "done", !.op = o, !.arg = d,
                                           !.ret = resultOf(o, noTable, newBuffer, d)]
                   ELSE [idleThread EXCEPT !.pc = "load", !.op = o, !.arg = d])
    /\ UNCHANGED <<rules, lastStore, lookupVars>>

\* Release()
CallRelease(t) ==
    /\ Ready(t)
    /\ Begin(t, [idleThread EXCEPT !.pc = "load", !.op = "Release"])
    /\ UNCHANGED <<rules, lastStore, lookupVars>>

\* Write(w)
CallWrite(t) ==
    /\ Ready(t)
    /\ Begin(t, [idleThread EXCEPT !.pc = "load", !.op = "Write"])
    /\ UNCHANGED <<rules, lastStore, lookupVars>>

\* var rulesInfo = load(), and the load() of Release and of Write
LoadRules(t) ==
    /\ thread[t].pc = "load"
    /\ thread' = [thread EXCEPT ![t].pc = "loaded", ![t].loaded = load]
    /\ UNCHANGED <<rules, lastStore, lookupVars>>

\* the rest of a reading function, over the table it has loaded
ReturnResult(t) ==
    /\ thread[t].pc = "loaded"
    /\ \E pooled \in PooledBuffers :
          thread' = [thread EXCEPT
                        ![t].pc = "done",
                        ![t].loaded = noTable,
                        ![t].seen = {},
                        ![t].ret = resultOf(thread[t].op, thread[t].loaded, pooled,
                                            thread[t].arg)]
    /\ UNCHANGED <<rules, lastStore, lookupVars>>

\* Read(r) up to its rules.Store
CallRead(t) ==
    /\ Ready(t)
    /\ \E r \in ReadInputs :
          LET decoded == read(r) IN
          Begin(t, IF decoded.err # nil
                   THEN [idleThread EXCEPT !.pc = "done", !.op = "Read", !.arg = r,
                                           !.ret = [err |-> decoded.err]]
                   ELSE [idleThread EXCEPT !.pc = "store", !.op = "Read", !.arg = r,
                                           !.built = decoded.rulesInfo])
    /\ UNCHANGED <<rules, lastStore, lookupVars>>

\* UpdateWithListRetriever(listRetriever) up to its load()
CallUpdateWithListRetriever(t) ==
    /\ Ready(t)
    /\ \E lr \in Retrievers :
          Begin(t, IF lr.TagErr
                   THEN [idleThread EXCEPT !.pc = "done", !.op = "UpdateWithListRetriever",
                                           !.arg = lr, !.ret = [err |-> errLastCommit]]
                   ELSE [idleThread EXCEPT !.pc = "compare", !.op = "UpdateWithListRetriever",
                                           !.arg = lr, !.latestTag = lr.Release])
    /\ UNCHANGED <<rules, lastStore, lookupVars>>

\* UpdateWithListRetriever from its load() to its return or its rules.Store;
\* loaded keeps the table compared when the call returns here
CompareRelease(t) ==
    /\ thread[t].pc = "compare"
    /\ LET s == updateSteps(load, thread[t].arg, thread[t].latestTag) IN
       thread' = [thread EXCEPT
                     ![t].pc = IF s.returns THEN "done" ELSE "store",
                     ![t].loaded = IF s.returns THEN load ELSE noTable,
                     ![t].gotList = s.gotList,
                     ![t].built = IF s.returns THEN noTable ELSE s.rulesInfo,
                     ![t].ret = IF s.returns THEN [err |-> s.err] ELSE [none |-> TRUE]]
    /\ UNCHANGED <<rules, lastStore, lookupVars>>

\* rules.Store(...) and return nil, of Read and of UpdateWithListRetriever
StoreRules(t) ==
    /\ thread[t].pc = "store"
    /\ rules' = thread[t].built
    /\ lastStore' = [by |-> t, op |-> thread[t].op, input |-> thread[t].arg]
    /\ thread' =
          [u \in Threads |->
              IF u = t
              THEN [thread[t] EXCEPT !.pc = "done", !.stores = 1, !.ret = [err |-> nil]]
              ELSE IF thread[u].pc \in {"load", "loaded"}
              THEN [thread[u] EXCEPT !.seen = @ \cup {thread[t].built}]
              ELSE thread[u]]
    /\ UNCHANGED lookupVars

StoreNext ==
    \E t \in Threads :
        \/ CallLookup(t)
        \/ CallRelease(t)
        \/ CallWrite(t)
        \/ LoadRules(t)
        \/ ReturnResult(t)
        \/ CallRead(t)
        \/ CallUpdateWithListRetriever(t)
        \/ CompareRelease(t)
        \/ StoreRules(t)

StoreSpec == StoreInit /\ [][StoreNext]_vars

-----------------------------------------------------------------------------
(* The builder and the decomposer on their own, as the package's tests call *)
(* them: one call at a time, newList on a raw list and a release,           *)
(* decomposeDomain on a domain and the emptied buffer of the pool.          *)

\* the lines a raw list handed to newList is made of: the two markers in
\* comments, a line with both markers that is no comment, rules of the three
\* kinds, a rule between white space, a comment, an empty line, a line the
\* pattern rejects and a line that is not ASCII
BuilderLines ==
    { <<"/", "/", " ", "=", "=", "=", icannBegin, "=", "=", "=">>,
      <<"/", "/", " ", "=", "=", "=", icannEnd, "=", "=", "=">>,
      <<icannEnd, " ", icannBegin>>,
      <<"a">>,
      <<"*", ".", "a">>,
      <<"!", "b", ".", "a">>,
      <<" ", "b", ".", "a", "\t">>,
      <<"/", "/", " ", "a">>,
      <<>>,
      <<"A">>,
      <<"é">> }
BuilderLists == UNION {[1..n -> BuilderLines] : n \in 0..MaxBuildLines}

\* no call is in progress
AllIdle == \A u \in Threads : thread[u].pc = "idle"

\* newList(r, release)
CallNewList(t) ==
    /\ AllIdle
    /\ \E r \in BuilderLists, release \in Releases :
          thread' = [thread EXCEPT ![t] =
                        [idleThread EXCEPT !.pc = "done", !.op = "newList",
                                           !.arg = [r |-> r, release |-> release],
                                           !.ret = newList(r, release)]]
    /\ UNCHANGED <<rules, lastStore, lookupVars>>

\* decomposeDomain(domain, subdomainPool.Get().([]subdomain)[:0])
CallDecomposeDomain(t) ==
    /\ AllIdle
    /\ \E d \in Domains, pooled \in PooledBuffers :
          thread' = [thread EXCEPT ![t] =
                        [idleThread EXCEPT !.pc = "done", !.op = "decomposeDomain",
                                           !.arg = [domain |-> d, pooled |-> pooled],
                                           !.ret = decomposeDomain(d, SliceTo(pooled, 0))]]
    /\ UNCHANGED <<rules, lastStore, lookupVars>>

\* the caller takes the result and is ready for its next call
TakeResult(t) ==
    /\ thread[t].pc = "done"
    /\ thread' = [thread EXCEPT ![t] = idleThread]
    /\ UNCHANGED <<rules, lastStore, lookupVars>>

UnitNext ==
    \E t \in Threads :
        \/ CallNewList(t)
        \/ CallDecomposeDomain(t)
        \/ TakeResult(t)

UnitSpec == StoreInit /\ [][UnitNext]_vars

-----------------------------------------------------------------------------
(* The vocabulary of the properties: what the specification calls a level, *)
(* an applicable rule and the suffix a rule yields, stated over strings    *)
(* and not over the loops of searchList.                                   *)

\* the last character of the domain is a dot
EndsInDot(d) == d # <<>> /\ d[Len(d)] = "."

\* the domain is empty or ends in a dot: searchList answers without looking
ShortCircuits(d) == d = <<>> \/ EndsInDot(d)

\* the offsets at which a level of d starts: 0 and the offset after each dot
LevelStarts(d) == {0} \cup {i \in 1..Len(d) : d[i] = "."}

\* the rules stored under the signature of the level text
Candidates(rulesInfo, level) ==
    IF RemoveDots(level) \in DOMAIN rulesInfo.Map
    THEN rulesInfo.Map[RemoveDots(level)]
    ELSE <<>>

\* the rule's dotted text without its "!" or "*." marker
Unmarked(rule) ==
    CASE rule.RuleType = wildcard -> SliceFrom(rule.DottedName, 2)
      [] rule.RuleType = exception -> SliceFrom(rule.DottedName, 1)
      [] OTHER -> rule.DottedName

\* the rule applies to the level text of the query d
Applies(rule, level, d) ==
    /\ HasSuffix(level, Unmarked(rule))
    /\ rule.RuleType = wildcard =>
          \/ Len(d) >= Len(rule.DottedName)
          \/ HasPrefix(d, <<".">>) /\ d = SliceFrom(rule.DottedName, 1)

\* the positions, in stored order, of the candidates applying at offset k
ApplicableAt(rulesInfo, d, k) ==
    LET level == SliceFrom(d, k)
        cs == Candidates(rulesInfo, level)
    IN  {j \in 1..Len(cs) : Applies(cs[j], level, d)}

\* some rule of the table applies to d at some level
Covered(rulesInfo, d) ==
    \E k \in LevelStarts(d) : ApplicableAt(rulesInfo, d, k) # {}

\* the offset of the longest level at which a rule applies
LongestApplicable(rulesInfo, d) ==
    CHOOSE k \in LevelStarts(d) :
        /\ ApplicableAt(rulesInfo, d, k) # {}
        /\ \A m \in LevelStarts(d) : m < k => ApplicableAt(rulesInfo, d, m) = {}

\* the number of labels of a dotted text
Labels(text) == Count(text, ".") + 1

\* the last n labels of d, all of d when it has no more than n
LastLabels(d, n) ==
    IF Labels(d) <= n
    THEN d
    ELSE SliceFrom(d, CHOOSE k \in LevelStarts(d) : Labels(SliceFrom(d, k)) = n)

\* the text with its leftmost label removed
DropLeftmostLabel(text) ==
    IF LevelStarts(text) = {0}
    THEN <<>>
    ELSE SliceFrom(text, CHOOSE k \in LevelStarts(text) \ {0} :
                             \A m \in LevelStarts(text) \ {0} : k <= m)

\* a single label: not empty and without a dot
IsLabel(text) == text # <<>> /\ Count(text, ".") = 0

\* the public suffix an applicable rule stands for; an exception of a
\* single label, which has no label to drop, stands for its own text
SuffixOf(rule, d) ==
    CASE rule.RuleType = wildcard -> LastLabels(d, Labels(rule.DottedName))
      [] rule.RuleType = exception ->
            IF IsLabel(Unmarked(rule))
            THEN rule.DottedName
            ELSE DropLeftmostLabel(Unmarked(rule))
      [] OTHER -> rule.DottedName

\* a lookup that returns the suffix and the ICANN flag has returned
Looked == pc = "done" /\ op \in {"searchList", "PublicSuffix"}

\* the table newList builds from a raw list
TableOf(list) == newList(list, "release_test").rulesInfo

-----------------------------------------------------------------------------
(* C1 *)

-----------------------------------------------------------------------------
(* C2 *)

\* C2: the default rule.  For a domain that does not end in a dot and to
\* which no rule of the table applies at any level, searchList returns the
\* text after the domain's last dot (the whole domain when it has none),
\* authoritative false and matched false.
C2_DefaultRule ==
    pc = "done" /\ op = "searchList" /\ ~EndsInDot(domain)
                /\ ~Covered(rules, domain) =>
        ret = [suffix |-> LastLabels(domain, 1), icann |-> FALSE, found |-> FALSE]

\* searchList has answered an uncovered domain of two labels with its last
\* label, against a table that has rules
C2_Witness ==
    /\ pc = "done" /\ op = "searchList"
    /\ rules = TableOf(ExcerptList)
    /\ domain = <<"f", "o", "o", ".", "n", "o", "s", "u", "c", "h", "t", "l", "d">>
    /\ ~Covered(rules, domain)
    /\ ret = [suffix |-> <<"n", "o", "s", "u", "c", "h", "t", "l", "d">>, icann |-> FALSE, found |-> FALSE]

-----------------------------------------------------------------------------
(* C3 *)

\* every rule of the table
AllRules(rulesInfo) ==
    UNION {{rulesInfo.Map[k][j] : j \in 1..Len(rulesInfo.Map[k])} :
              k \in DOMAIN rulesInfo.Map}

\* no rule applies to d at a level longer than the one starting at offset k
NoneLonger(rulesInfo, d, k) ==
    \A m \in LevelStarts(d) : m < k => ApplicableAt(rulesInfo, d, m) = {}

\* w is a wildcard "*.X" and e an exception "!L.X" for a single label L
ExceptionUnder(e, w) ==
    /\ w.RuleType = wildcard
    /\ w.DottedName = <<"*", ".">> \o Unmarked(w)
    /\ e.RuleType = exception
    /\ HasSuffix(Unmarked(e), <<".">> \o Unmarked(w))
    /\ IsLabel(SliceTo(Unmarked(e), Len(Unmarked(e)) - Len(Unmarked(w)) - 1))

\* C3: exception over wildcard.  In a table containing a wildcard "*.X" and
\* an exception "!L.X", with no rule applying at a longer level, the public
\* suffix of "L.X" and of every subdomain of "L.X" is "X", and the public
\* suffix of "M.X" for any other single label M is "M.X".
C3_ExceptionOverWildcard ==
    Looked =>
        \A w \in AllRules(rules), e \in AllRules(rules) :
            ExceptionUnder(e, w) =>
                LET X == Unmarked(w)
                    LX == Unmarked(e)
                    M == SliceTo(domain, Len(domain) - Len(X) - 1)
                IN  /\ (domain = LX \/ HasSuffix(domain, <<".">> \o LX))
                          /\ NoneLonger(rules, domain, Len(domain) - Len(LX))
                       => ret.suffix = X
                    /\ HasSuffix(domain, <<".">> \o X) /\ IsLabel(M)
                          /\ domain # LX
                          /\ NoneLonger(rules, domain, Len(M) + 1)
                       => ret.suffix = domain

-----------------------------------------------------------------------------
(* C4 *)

\* the rule searchList meets first among those that apply: the first, in
\* stored order, at the longest level at which any applies
FirstApplicable(rulesInfo, d) ==
    LET k == LongestApplicable(rulesInfo, d)
        cs == Candidates(rulesInfo, SliceFrom(d, k))
        j == CHOOSE j \in ApplicableAt(rulesInfo, d, k) :
                 \A i \in ApplicableAt(rulesInfo, d, k) : j <= i
    IN  cs[j]

\* the rule is a wildcard of the form "*.X"
IsStarDot(rule) ==
    /\ rule.RuleType = wildcard
    /\ rule.DottedName = <<"*", ".">> \o Unmarked(rule)

\* the label of d right before its ending ".X"
LabelLeftOf(d, X) ==
    LET left == SliceTo(d, Len(d) - Len(X) - 1)
    IN  SliceFrom(left, LastIndex(left, ".") + 1)

\* C4: wildcard match.  When a wildcard "*.X" of n labels is the first
\* applicable rule for a domain with a label to the left of X, searchList
\* returns the last n labels of the domain (all of it when it has fewer),
\* which is the label left of X followed by ".X", and matched is true.
C4_WildcardMatch ==
    pc = "done" /\ op = "searchList" /\ ~ShortCircuits(domain)
                /\ Covered(rules, domain) =>
        LET rule == FirstApplicable(rules, domain)
            X == Unmarked(rule)
        IN  IsStarDot(rule) /\ HasSuffix(domain, <<".">> \o X) =>
                /\ ret.suffix = LastLabels(domain, Labels(rule.DottedName))
                /\ ret.suffix = LabelLeftOf(domain, X) \o <<".">> \o X
                /\ ret.found = TRUE

\* searchList has answered "b.c.kobe.jp" from the wildcard "*.kobe.jp"
C4_Witness ==
    /\ pc = "done" /\ op = "searchList"
    /\ rules = TableOf(ExcerptList)
    /\ domain = <<"b", ".", "c", ".", "k", "o", "b", "e", ".", "j", "p">>
    /\ IsStarDot(FirstApplicable(rules, domain))
    /\ ret.suffix = <<"c", ".", "k", "o", "b", "e", ".", "j", "p">>
    /\ ret.found = TRUE

-----------------------------------------------------------------------------
(* C5 *)

\* what the specification's algorithm answers: the suffix and flag of the
\* first applicable rule, or the default
Expected(rulesInfo, d) ==
    IF Covered(rulesInfo, d)
    THEN LET rule == FirstApplicable(rulesInfo, d)
         IN  [suffix |-> SuffixOf(rule, d), icann |-> rule.ICANN, found |-> TRUE]
    ELSE [suffix |-> LastLabels(d, 1), icann |-> FALSE, found |-> FALSE]

\* the table without the rule w
Without(rulesInfo, w) ==
    [rulesInfo EXCEPT !.Map =
        [k \in DOMAIN rulesInfo.Map |->
            SelectSeq(rulesInfo.Map[k], LAMBDA r : r # w)]]

\* d has fewer characters than the wildcard w and ends with w's tail
ShorterThan(d, w) ==
    /\ IsStarDot(w)
    /\ Len(d) < Len(w.DottedName)
    /\ HasSuffix(d, Unmarked(w))

\* C5: the wildcard corner case.  For a domain shorter than a wildcard "*.X"
\* whose tail it ends with: if the domain is ".X" and the wildcard is the
\* first rule to apply, searchList returns the domain itself, matched; if
\* the domain is not ".X" the wildcard fails and the answer is the one of
\* the remaining candidates, shorter levels and the default, that is the
\* answer of the table without the wildcard.  ".ck" against "*.ck" gives
\* ".ck"; "np" against "*.np" gives ("np", false, false).
C5_WildcardCornerCase ==
    pc = "done" /\ op = "searchList" /\ ~EndsInDot(domain) =>
        /\ \A w \in AllRules(rules) :
              ShorterThan(domain, w) =>
                  IF domain = <<".">> \o Unmarked(w)
                  THEN FirstApplicable(rules, domain) = w =>
                          ret = [suffix |-> domain, icann |-> w.ICANN, found |-> TRUE]
                  ELSE ret = Expected(Without(rules, w), domain)
        /\ rules = TableOf(CkOnlyList) /\ domain = <<".", "c", "k">> =>
              ret = [suffix |-> <<".", "c", "k">>, icann |-> FALSE, found |-> TRUE]
        /\ rules = TableOf(ExcerptList) /\ domain = <<"n", "p">> =>
              ret = [suffix |-> <<"n", "p">>, icann |-> FALSE, found |-> FALSE]

\* searchList has answered ".ck", shorter than the only rule "*.ck", with
\* the domain itself
C5_Witness ==
    /\ pc = "done" /\ op = "searchList"
    /\ rules = TableOf(CkOnlyList)
    /\ domain = <<".", "c", "k">>
    /\ \E w \in AllRules(rules) : ShorterThan(domain, w)
    /\ ret = [suffix |-> <<".", "c", "k">>, icann |-> FALSE, found |-> TRUE]

\* searchList has answered "np", shorter than the rule "*.np" and not
\* ".np", with the default
C5_WitnessFails ==
    /\ pc = "done" /\ op = "searchList"
    /\ rules = TableOf(ExcerptList)
    /\ domain = <<"n", "p">>
    /\ \E w \in AllRules(rules) : ShorterThan(domain, w)
    /\ ret = [suffix |-> <<"n", "p">>, icann |-> FALSE, found |-> FALSE]

-----------------------------------------------------------------------------
(* C6 *)

\* C6 as stated: against the table whose only rule is "*.ck", the suffix of
\* "a.ck" is "a.ck" and the suffix of "test.ck" is the empty string.
C6_AsStated ==
    Looked /\ rules = TableOf(CkOnlyList) =>
        /\ domain = <<"a", ".", "c", "k">> => ret.suffix = <<"a", ".", "c", "k">>
        /\ domain = <<"t", "e", "s", "t", ".", "c", "k">> => ret.suffix = <<>>

\* C6 amended: against the table whose only rule is "*.ck", the suffix of
\* "a.ck" is "a.ck" and the suffix of "test.ck" is "test.ck", both matched;
\* the empty string is what EffectiveTLDPlusOne("test.ck") returns, with
\* an error.
C6_WildcardBoundary ==
    pc = "done" /\ rules = TableOf(CkOnlyList) =>
        /\ Looked /\ domain = <<"a", ".", "c", "k">> => ret.suffix = <<"a", ".", "c", "k">>
        /\ Looked /\ domain = <<"t", "e", "s", "t", ".", "c", "k">> => ret.suffix = <<"t", "e", "s", "t", ".", "c", "k">>
        /\ op = "searchList" /\ domain \in { <<"a", ".", "c", "k">>, <<"t", "e", "s", "t", ".", "c", "k">> } =>
              ret.found = TRUE
        /\ op = "EffectiveTLDPlusOne" /\ domain = <<"t", "e", "s", "t", ".", "c", "k">> =>
              ret = [value |-> <<>>, err |-> errCannotDerive]

\* PublicSuffix("test.ck") has returned "test.ck" against the table whose
\* only rule is "*.ck"
C6_Witness ==
    /\ pc = "done" /\ op = "PublicSuffix"
    /\ rules = TableOf(CkOnlyList)
    /\ domain = <<"t", "e", "s", "t", ".", "c", "k">>
    /\ ret.suffix = <<"t", "e", "s", "t", ".", "c", "k">>

-----------------------------------------------------------------------------
(* C7 *)

\* some level of d has its signature in the table
SignatureHit(rulesInfo, d) ==
    \E k \in LevelStarts(d) : Candidates(rulesInfo, SliceFrom(d, k)) # <<>>

\* the candidates, by level offset and position, whose dotted text the
\* level's dotted text ends with
SuffixChecked(rulesInfo, d) ==
    UNION {{<<k, j>> : j \in {i \in 1..Len(Candidates(rulesInfo, SliceFrom(d, k))) :
                                HasSuffix(SliceFrom(d, k),
                                    Unmarked(Candidates(rulesInfo, SliceFrom(d, k))[i]))}} :
              k \in LevelStarts(d)}

\* C7: shared signatures.  A rule stored under the signature of a level
\* produces the result only if the level's dotted text ends with the rule's
\* dotted text: a matched result comes from such a rule, and when levels hit
\* signatures but no candidate passes this check the result is the default.
\* With "i.ng" and "ing" under the signature "ing", in either order, the
\* suffix of "i.ng" is "i.ng" and the suffix of "x.ing" is "ing".
C7_SharedSignature ==
    /\ pc = "done" /\ op = "searchList" /\ ~EndsInDot(domain) =>
          /\ ret.found =>
                \E p \in SuffixChecked(rules, domain) :
                    LET c == Candidates(rules, SliceFrom(domain, p[1]))[p[2]]
                    IN  ret.suffix = SuffixOf(c, domain) /\ ret.icann = c.ICANN
          /\ SuffixChecked(rules, domain) = {} =>
                ret = [suffix |-> LastLabels(domain, 1), icann |-> FALSE,
                       found |-> FALSE]
    /\ Looked /\ rules \in {TableOf(ExcerptList), TableOf(IngFirstList)} =>
          /\ domain = <<"i", ".", "n", "g">> => ret.suffix = <<"i", ".", "n", "g">>
          /\ domain = <<"x", ".", "i", "n", "g">> => ret.suffix = <<"i", "n", "g">>

\* PublicSuffix("x.ing") has returned "ing" although "i.ng" comes first
\* under the signature "ing" and fails the check
C7_Witness ==
    /\ pc = "done" /\ op = "PublicSuffix"
    /\ rules = TableOf(ExcerptList)
    /\ domain = <<"x", ".", "i", "n", "g">>
    /\ Candidates(rules, <<"i", "n", "g">>)[1].DottedName = <<"i", ".", "n", "g">>
    /\ Candidates(rules, <<"i", "n", "g">>)[2].DottedName = <<"i", "n", "g">>
    /\ ret.suffix = <<"i", "n", "g">>

\* searchList has answered with the default a domain whose level hits a
\* signature none of whose rules it ends with
C7_WitnessHitOnly ==
    /\ pc = "done" /\ op = "searchList"
    /\ SignatureHit(rules, domain)
    /\ SuffixChecked(rules, domain) = {}
    /\ ret.found = FALSE

-----------------------------------------------------------------------------
(* C8 *)

\* the first applicable rule comes after a candidate of the same signature
\* that fails its suffix check
PrecededByFailure(rulesInfo, d) ==
    LET k == LongestApplicable(rulesInfo, d)
        cs == Candidates(rulesInfo, SliceFrom(d, k))
    IN  /\ 1 \notin ApplicableAt(rulesInfo, d, k)
        /\ ~HasSuffix(SliceFrom(d, k), Unmarked(cs[1]))

\* C8: the matched flag.  HasPublicSuffix, the third result of searchList,
\* is true exactly when a rule of the table applied and produced the
\* suffix, and false exactly when the answer is the default or the
\* short-circuit for an empty domain or one ending in a dot; it is true
\* also when the applying rule follows a failed candidate of its signature.
C8_MatchedFlag ==
    /\ pc = "done" /\ op = "HasPublicSuffix" =>
          ret.found = (~ShortCircuits(domain) /\ Covered(rules, domain))
    /\ pc = "done" /\ op = "searchList" =>
          /\ ret.found = (~ShortCircuits(domain) /\ Covered(rules, domain))
          /\ ~ret.found =>
                \/ ShortCircuits(domain) /\ ret = NoResult
                \/ ~ShortCircuits(domain)
                     /\ ret = [suffix |-> LastLabels(domain, 1),
                               icann |-> FALSE, found |-> FALSE]

\* HasPublicSuffix has returned true for a domain whose applying rule comes
\* after a failed candidate under the same signature
C8_Witness ==
    /\ pc = "done" /\ op = "HasPublicSuffix"
    /\ ~ShortCircuits(domain)
    /\ Covered(rules, domain)
    /\ PrecededByFailure(rules, domain)
    /\ ret.found = TRUE

-----------------------------------------------------------------------------
(* C9 *)

\* C9: the authoritative flag.  The bool PublicSuffix returns is the ICANN
\* flag of the one rule that produced the suffix, the first applicable
\* rule, and false when no rule applied: the default and the short-circuit.
C9_AuthoritativeFlag ==
    pc = "done" /\ op = "PublicSuffix" =>
        IF ~ShortCircuits(domain) /\ Covered(rules, domain)
        THEN LET rule == FirstApplicable(rules, domain)
             IN  /\ ret.suffix = SuffixOf(rule, domain)
                 /\ ret.icann = rule.ICANN
        ELSE ret.icann = FALSE

\* PublicSuffix has returned true for a suffix produced by a rule of the
\* ICANN section of a table that also has a rule outside it
C9_Witness ==
    /\ pc = "done" /\ op = "PublicSuffix"
    /\ rules = TableOf(ExcerptList)
    /\ domain = <<"b", ".", "c", "o", ".", "u", "k">>
    /\ FirstApplicable(rules, domain).ICANN = TRUE
    /\ \E r \in AllRules(rules) : r.ICANN = FALSE
    /\ ret = [suffix |-> <<"c", "o", ".", "u", "k">>, icann |-> TRUE]

\* PublicSuffix has returned false for a suffix produced by a rule outside
\* the ICANN section
C9_WitnessPrivate ==
    /\ pc = "done" /\ op = "PublicSuffix"
    /\ ~ShortCircuits(domain) /\ Covered(rules, domain)
    /\ FirstApplicable(rules, domain).ICANN = FALSE
    /\ ret.icann = FALSE

-----------------------------------------------------------------------------
(* C10 *)

\* the public suffix PublicSuffix resolves for d against the table
Resolved(rulesInfo, d) == publicSuffix(rulesInfo, newBuffer, d).suffix

\* d is not strictly longer than the suffix, or the character of d right
\* before the last Len(suffix) characters is not a dot
NoPlusOne(d, suffix) ==
    \/ Len(d) <= Len(suffix)
    \/ d[Len(d) - Len(suffix)] # "."

\* C10: EffectiveTLDPlusOne returns an error and the empty string when the
\* domain is not strictly longer than its resolved public suffix or the
\* character right before the suffix is not a dot, and succeeds in every
\* other case.  It fails for a domain that is itself its public suffix, as
\* "com", and succeeds for "example.com" with "example.com".
C10_PlusOneErrors ==
    pc = "done" /\ op = "EffectiveTLDPlusOne" =>
        LET suffix == Resolved(rules, domain) IN
        /\ NoPlusOne(domain, suffix) => ret.err # nil /\ ret.value = <<>>
        /\ ~NoPlusOne(domain, suffix) => ret.err = nil
        /\ suffix = domain => ret.err # nil
        /\ rules = TableOf(ExcerptList) /\ domain = <<"c", "o", "m">> =>
              ret.err # nil /\ ret.value = <<>>
        /\ rules = TableOf(ExcerptList) /\ domain = <<"e", "x", "a", "m", "p", "l", "e", ".", "c", "o", "m">> =>
              ret = [value |-> <<"e", "x", "a", "m", "p", "l", "e", ".", "c", "o", "m">>, err |-> nil]

\* EffectiveTLDPlusOne has failed for "com", which is its own public suffix
C10_Witness ==
    /\ pc = "done" /\ op = "EffectiveTLDPlusOne"
    /\ rules = TableOf(ExcerptList)
    /\ domain = <<"c", "o", "m">>
    /\ Resolved(rules, domain) = domain
    /\ ret = [value |-> <<>>, err |-> errCannotDerive]

\* EffectiveTLDPlusOne has failed for a domain longer than its suffix because
\* the character before the suffix is not a dot
C10_WitnessSeparator ==
    /\ pc = "done" /\ op = "EffectiveTLDPlusOne"
    /\ Len(domain) > Len(Resolved(rules, domain))
    /\ ret = [value |-> <<>>, err |-> errInvalidSuffix]

\* EffectiveTLDPlusOne has succeeded for "example.com"
C10_WitnessSucceeds ==
    /\ pc = "done" /\ op = "EffectiveTLDPlusOne"
    /\ rules = TableOf(ExcerptList)
    /\ domain = <<"e", "x", "a", "m", "p", "l", "e", ".", "c", "o", "m">>
    /\ ret = [value |-> <<"e", "x", "a", "m", "p", "l", "e", ".", "c", "o", "m">>, err |-> nil]

-----------------------------------------------------------------------------
(* C11 *)

\* value is one dot-free label, a dot, and then suffix
OneLabelBefore(value, suffix) ==
    /\ Len(value) > Len(suffix)
    /\ SliceFrom(value, Len(value) - Len(suffix)) = suffix
    /\ value[Len(value) - Len(suffix)] = "."
    /\ \A i \in 1..(Len(value) - Len(suffix) - 1) : value[i] # "."

\* C11: whenever EffectiveTLDPlusOne succeeds, its result is a right-anchored
\* substring of the domain made of one label without a dot, a dot, and the
\* public suffix PublicSuffix resolves for the domain.
C11_PlusOneShape ==
    pc = "done" /\ op = "EffectiveTLDPlusOne" /\ ret.err = nil =>
        /\ HasSuffix(domain, ret.value)
        /\ OneLabelBefore(ret.value, Resolved(rules, domain))
-----------------------------------------------------------------------------
(* C19 *)

\* C19: short-circuit.  For the empty domain and for every domain whose last
\* character is a dot, searchList returns ("", false, false) whatever the
\* table holds and whatever buffer the pool hands out, and so PublicSuffix
\* returns ("", false) and HasPublicSuffix false.
C19_ShortCircuit ==
    pc = "done" /\ (domain = <<>> \/ domain[Len(domain)] = ".") =>
        /\ op = "searchList" => ret = [suffix |-> <<>>, icann |-> FALSE, found |-> FALSE]
        /\ op = "PublicSuffix" => ret = [suffix |-> <<>>, icann |-> FALSE]
        /\ op = "HasPublicSuffix" => ret = [found |-> FALSE]

\* searchList has answered a domain that ends in a dot against a table with
\* a rule whose text the domain's first level ends with
C19_Witness ==
    /\ pc = "done" /\ op = "searchList"
    /\ domain = <<"a", ".">>
    /\ \E r \in AllRules(rules) : r.DottedName = <<"*", "a">>
    /\ ret = [suffix |-> <<>>, icann |-> FALSE, found |-> FALSE]

\* searchList has answered the empty domain
C19_WitnessEmpty ==
    /\ pc = "done" /\ op = "searchList"
    /\ domain = <<>>
    /\ rules.Map # emptyMap
    /\ ret = [suffix |-> <<>>, icann |-> FALSE, found |-> FALSE]
-----------------------------------------------------------------------------
(* C20 *)

\* a rule of one label that is a wildcard or an exception
OneLabelMarked(rule) ==
    rule.RuleType # normal /\ Index(rule.DottedName, ".") = -1

\* C20: lookups never fail abnormally.  For every domain and every built
\* table, one-label wildcard and exception rules included, searchList and
\* the lookups over it complete without an index or a slice bound out of
\* range: searchList returns a suffix and its two flags, and
\* EffectiveTLDPlusOne returns a value with nil or one of its two errors.
C20_NoPanic ==
    pc = "done" =>
        /\ ~IsPanic(ret)
        /\ op = "searchList" =>
              DOMAIN ret = {"suffix", "icann", "found"} /\ ret.found \in BOOLEAN
        /\ op = "PublicSuffix" => DOMAIN ret = {"suffix", "icann"}
        /\ op = "HasPublicSuffix" => ret.found \in BOOLEAN
        /\ op = "EffectiveTLDPlusOne" =>
              /\ DOMAIN ret = {"value", "err"}
              /\ ret.err \in {nil, errCannotDerive, errInvalidSuffix}

\* EffectiveTLDPlusOne has returned for a domain of consecutive dots against
\* a table with a one-label wildcard or exception whose signature a level of
\* the domain has
C20_Witness ==
    /\ pc = "done" /\ op = "EffectiveTLDPlusOne"
    /\ domain = <<".", ".", "a">>
    /\ \E r \in AllRules(rules) : OneLabelMarked(r) /\ Applies(r, domain, domain)
    /\ ~IsPanic(ret)

\* searchList has returned against the table of the one-character wildcard
C20_WitnessStar ==
    /\ pc = "done" /\ op = "searchList"
    /\ rules = TableOf(StarList)
    /\ domain = <<".", "a">>
    /\ ret = [suffix |-> <<"a">>, icann |-> FALSE, found |-> FALSE]
-----------------------------------------------------------------------------
(* C12 *)

\* what the reading function o returns for arg against the one table T
AgainstTable(o, T, arg) ==
    CASE o = "PublicSuffix" -> publicSuffix(T, newBuffer, arg)
      [] o = "HasPublicSuffix" -> hasPublicSuffix(T, newBuffer, arg)
      [] o = "EffectiveTLDPlusOne" -> effectiveTLDPlusOne(T, newBuffer, arg)
      [] o = "Release" -> [release |-> T.Release]
      [] o = "Write" -> [bytes |-> zlibStream(jsonEncode(T)), err |-> nil]

\* C12: snapshot isolation for readers.  Whenever PublicSuffix,
\* HasPublicSuffix, EffectiveTLDPlusOne, Release or Write returns, under any
\* interleaving with stores of Read and UpdateWithListRetriever, its result
\* is the result against one single table that was the published table at
\* some instant of the call: never rules of one table with the release of
\* another.  A lookup that returns without loading returns what it would
\* against the published table.
C12_SnapshotIsolation ==
    [][\A t \in Threads :
          /\ thread[t].pc = "loaded" /\ thread'[t].pc = "done" =>
                \E T \in thread[t].seen :
                    thread'[t].ret = AgainstTable(thread[t].op, T, thread[t].arg)
          /\ thread'[t].pc = "done" /\ thread'[t].op \in LookupOps
                                     /\ endsOnDot(thread'[t].arg) =>
                thread'[t].ret = AgainstTable(thread'[t].op, rules', thread'[t].arg)
      ]_vars

\* a Write has loaded the table, and another goroutine has stored a table of
\* another release and other rules before the Write returns
C12_Witness ==
    \E t \in Threads :
        /\ thread[t].pc = "loaded" /\ thread[t].op = "Write"
        /\ thread[t].seen = {thread[t].loaded, rules}
        /\ thread[t].loaded.Release # rules.Release
        /\ thread[t].loaded.Map # rules.Map

\* a lookup has returned the result against the compiled-in table while the
\* published table is another one, stored by a call that has not returned
\* before the lookup was entered
C12_WitnessLookup ==
    \E t \in Threads, w \in Threads :
        /\ thread[t].pc = "done" /\ thread[t].op = "PublicSuffix"
        /\ thread[t].arg = <<"b", ".", "a">>
        /\ thread[t].ret = [suffix |-> <<"b", ".", "a">>, icann |-> TRUE]
        /\ thread[t].since = "none"
        /\ lastStore.by = w /\ thread[w].pc = "done" /\ thread[w].stores = 1
        /\ rules.Map = emptyMap
-----------------------------------------------------------------------------
(* C13 *)

\* the complete table of the writer that stored last: the table newList
\* builds from the list and the tag of its retriever, the table its bytes
\* decode to, or the compiled-in table when no writer has stored
WholeTableOf(ls) ==
    CASE ls.op = "UpdateWithListRetriever" ->
            newList(ls.input.RawList, ls.input.Release).rulesInfo
      [] ls.op = "Read" -> jsonDecode(ls.input.text).rulesInfo
      [] OTHER -> InitialTable

\* C13: store invariant under racing writers.  In every reachable state,
\* while any calls of UpdateWithListRetriever and Read interleave, the store
\* holds one table whose Map and Release both come from one build or one
\* deserialization: that of the writer that stored last, which returned nil,
\* or the initial table when no writer has stored.
C13_StoreInvariant ==
    /\ rules = WholeTableOf(lastStore)
    /\ lastStore.by \in Threads =>
          /\ thread[lastStore.by].stores = 1 => thread[lastStore.by].ret.err = nil
          /\ lastStore.op = "UpdateWithListRetriever" =>
                ~lastStore.input.TagErr /\ ~lastStore.input.ListErr
          /\ lastStore.op = "Read" => lastStore.input.zlib

\* two writers have raced: both have stored and returned, and the table of
\* the one that stored last is published
C13_Witness ==
    \E w \in Threads, v \in Threads :
        /\ w # v
        /\ thread[w].pc = "done" /\ thread[w].op = "UpdateWithListRetriever"
        /\ thread[v].pc = "done" /\ thread[v].op = "UpdateWithListRetriever"
        /\ thread[w].stores = 1 /\ thread[v].stores = 1
        /\ thread[w].arg.Release # thread[v].arg.Release
        /\ thread[w].arg.RawList # thread[v].arg.RawList
        /\ lastStore.by = w
        /\ rules.Release = thread[w].arg.Release
-----------------------------------------------------------------------------
(* C14 *)

\* the raw list has a rule line that idna.ToASCII or validSuffixRE rejects
HasRejectedLine(rawList) ==
    \E i \in 1..Len(rawList) :
        LET line == TrimSpace(rawList[i]) IN
        /\ ~Contains(line, icannBegin) /\ ~Contains(line, icannEnd)
        /\ line # <<>> /\ ~HasPrefix(line, <<"/", "/">>)
        /\ ToASCII(line).err \/ ~validSuffixRE(ToASCII(line).line)

\* the tables of the rules parsed before a line of the list
PartialTables(lr) ==
    {newList(SubSeq(lr.RawList, 1, n), lr.Release).rulesInfo :
        n \in 1..(Len(lr.RawList) - 1)}

\* the call of t has returned an error
Failed(t) ==
    /\ thread[t].pc = "done" /\ thread[t].op \in WriterOps
    /\ thread[t].ret.err # nil

\* in every state: a writer whose input is bad has returned an error, a
\* writer that has returned an error has not stored, and no table of the
\* rules that precede a rejected line is published
C14_NotStored ==
    /\ \A t \in Threads :
          /\ Failed(t) => thread[t].stores = 0
          /\ thread[t].pc = "done" /\ thread[t].op = "Read"
                /\ (~thread[t].arg.zlib \/ thread[t].arg.text = notJSON) => Failed(t)
          /\ thread[t].pc = "done" /\ thread[t].op = "UpdateWithListRetriever" =>
                LET lr == thread[t].arg IN
                /\ lr.TagErr => Failed(t)
                /\ ~lr.TagErr /\ thread[t].stores = 0
                       /\ thread[t].loaded.Release # lr.Release => Failed(t)
                /\ ~lr.TagErr /\ (lr.ListErr \/ HasRejectedLine(lr.RawList)) =>
                      thread[t].stores = 0
    /\ \A lr \in {r \in Retrievers : HasRejectedLine(r.RawList)} :
          \A P \in PartialTables(lr) : rules.Map # P.Map

\* C14: failure atomicity.  If UpdateWithListRetriever fails (an error of
\* GetLatestReleaseTag or of GetList, or a list line that fails the ASCII
\* conversion or the canonical form, after valid lines) or Read fails (a
\* zlib or a JSON error), the call returns an error and has not changed the
\* published table: no step of a failing call stores, every change of the
\* published table is the store of a call that returns nil, and no rule
\* parsed before the failing line is ever published.
C14_FailureAtomicity ==
    /\ []C14_NotStored
    /\ [][/\ \A t \in Threads :
                ~Failed(t) /\ Failed(t)' => rules' = rules /\ lastStore' = lastStore
          /\ rules' # rules =>
                \E u \in Threads :
                    /\ thread[u].pc = "store" /\ rules' = thread[u].built
                    /\ thread'[u].pc = "done" /\ thread'[u].ret.err = nil
         ]_vars

\* an update has failed on the second line of its list, after a valid
\* first line, and the published table is still the initial one
C14_Witness ==
    \E t \in Threads :
        /\ Failed(t) /\ thread[t].op = "UpdateWithListRetriever"
        /\ thread[t].arg.RawList = ListBadSuffix
        /\ thread[t].ret.err = errNewList
        /\ rules = InitialTable
        /\ lastStore.by = "init"

\* a Read has failed on text that is no JSON, after another writer's store
C14_WitnessRead ==
    \E t \in Threads :
        /\ Failed(t) /\ thread[t].op = "Read"
        /\ thread[t].ret.err = errJSON
        /\ lastStore.by \in Threads \ {t}
-----------------------------------------------------------------------------
(* C15 *)

\* C15: a same-release update is a no-op.  When the tag GetLatestReleaseTag
\* returned equals the release of the table published when
\* UpdateWithListRetriever loads it, the call returns nil at that step
\* without calling GetList and without storing, and the published table is
\* unchanged, whatever list the retriever would have returned.
C15_SameReleaseNoOp ==
    [][\A t \in Threads :
          /\ thread[t].pc = "compare" /\ thread'[t].pc # "compare"
          /\ rules.Release = thread[t].latestTag
          => /\ thread'[t].pc = "done"
             /\ thread'[t].ret = [err |-> nil]
             /\ ~thread'[t].gotList
             /\ thread'[t].stores = 0
             /\ rules' = rules
             /\ lastStore' = lastStore
      ]_vars

\* an update whose retriever offers another list under the release of the
\* initial table has returned nil, and the initial table is still published
C15_Witness ==
    \E t \in Threads :
        /\ thread[t].pc = "done" /\ thread[t].op = "UpdateWithListRetriever"
        /\ thread[t].arg = ListRetriever(tagCompiled, FALSE, ListNewer, FALSE)
        /\ thread[t].loaded = InitialTable
        /\ thread[t].ret = [err |-> nil]
        /\ ~thread[t].gotList /\ thread[t].stores = 0
        /\ rules = InitialTable /\ lastStore.by = "init"

\* an update has returned nil for the release published by another
\* goroutine's update, without reading its own list, which has a bad line
C15_WitnessAfterUpdate ==
    \E t \in Threads :
        /\ thread[t].pc = "done" /\ thread[t].op = "UpdateWithListRetriever"
        /\ thread[t].arg.RawList = ListBadSuffix
        /\ thread[t].ret = [err |-> nil]
        /\ ~thread[t].gotList
        /\ rules.Release = tagNewer /\ lastStore.by \in Threads \ {t}
-----------------------------------------------------------------------------
(* C16 *)

\* C16: an empty release tag means nothing to do.  When the retriever
\* returns an empty release tag and no error, UpdateWithListRetriever
\* returns nil without storing, and the release of a table published by an
\* update is never empty.
C16_EmptyTagNoOp ==
    /\ \A t \in Threads :
          /\ thread[t].op = "UpdateWithListRetriever"
          /\ thread[t].pc \in {"store", "done"}
          /\ ~thread[t].arg.TagErr /\ thread[t].arg.Release = tagEmpty
          => /\ thread[t].pc = "done"
             /\ thread[t].ret = [err |-> nil]
             /\ thread[t].stores = 0
    /\ lastStore.op = "UpdateWithListRetriever" => rules.Release # tagEmpty
-----------------------------------------------------------------------------
(* C17 *)

\* the update of w has stored and returned nil, and no other writer has
\* stored since
Published(w) ==
    /\ thread[w].pc = "done" /\ thread[w].op = "UpdateWithListRetriever"
    /\ thread[w].ret = [err |-> nil] /\ thread[w].stores = 1
    /\ lastStore.by = w

\* the table newList builds from the list and the tag of the retriever
TableFor(lr) == newList(lr.RawList, lr.Release).rulesInfo

\* C17: a successful update publishes.  After UpdateWithListRetriever has
\* returned nil for a tag different from the published release and a valid
\* list, and while no other writer stores, the published table is the table
\* built from that list under that tag, and every Release, Write and lookup
\* entered after the return gives the result against exactly that table:
\* Release returns the tag, and an empty list gives the default results.
C17_UpdatePublishes ==
    \A w \in Threads :
        Published(w) =>
            /\ rules = TableFor(thread[w].arg)
            /\ rules.Release = thread[w].arg.Release
            /\ \A u \in Threads \ {w} :
                  /\ thread[u].pc = "done" /\ thread[u].op \in ReaderOps
                  /\ thread[u].since = w
                  => /\ thread[u].ret =
                           AgainstTable(thread[u].op, TableFor(thread[w].arg), thread[u].arg)
                     /\ thread[u].op = "Release" =>
                           thread[u].ret.release = thread[w].arg.Release

\* Release, entered after an update to a newer tag returned nil, has
\* returned that tag
C17_Witness ==
    \E w \in Threads, u \in Threads :
        /\ Published(w)
        /\ thread[w].arg = ListRetriever(tagNewer, FALSE, ListEmpty, FALSE)
        /\ thread[u].pc = "done" /\ thread[u].op = "Release"
        /\ thread[u].since = w
        /\ thread[u].ret = [release |-> tagNewer]

\* a lookup entered after an update with an empty list returned nil has
\* returned the default result, which the table published before did not give
C17_WitnessLookup ==
    \E w \in Threads, u \in Threads :
        /\ Published(w)
        /\ thread[w].arg.RawList = ListEmpty
        /\ rules.Map = emptyMap
        /\ thread[u].pc = "done" /\ thread[u].op = "PublicSuffix"
        /\ thread[u].since = w
        /\ thread[u].arg = <<"b", ".", "a">>
        /\ thread[u].ret = [suffix |-> <<"a">>, icann |-> FALSE]
-----------------------------------------------------------------------------
(* C18 *)

\* the tables a successful build publishes: what newList builds for the
\* retrievers that give a tag and a list without a rejected line
BuildTables ==
    {TableFor(lr) :
        lr \in {r \in Retrievers :
                  ~r.TagErr /\ ~r.ListErr /\ ~HasRejectedLine(r.RawList)}}

\* C18: serialization round trip.  For any table T published by a successful
\* build, a Read of the bytes a Write wrote for T stores a table equal to T:
\* the same signatures, the same rules in the same order under each, and the
\* same release.
C18_RoundTrip ==
    \A t \in Threads, T \in BuildTables :
        /\ thread[t].op = "Read" /\ thread[t].pc \in {"store", "done"}
        /\ thread[t].arg = zlibStream(jsonEncode(T))
        => /\ thread[t].pc = "done" => thread[t].ret = [err |-> nil]
           /\ thread[t].built = T

-----------------------------------------------------------------------------
(* C21 *)

\* the rules matching d: each level offset with the position, in stored
\* order, of a candidate that applies there
Matching(rulesInfo, d) ==
    UNION {{[level |-> k, pos |-> j] : j \in ApplicableAt(rulesInfo, d, k)} :
              k \in LevelStarts(d)}

\* the rule a matching entry stands for
RuleAt(rulesInfo, d, m) == Candidates(rulesInfo, SliceFrom(d, m.level))[m.pos]

\* the matching entries whose rule is an exception
MatchingExceptions(rulesInfo, d) ==
    {m \in Matching(rulesInfo, d) : RuleAt(rulesInfo, d, m).RuleType = exception}

\* C21: exception prevails.  Whenever more than one rule matches the domain
\* and one of the matching rules is an exception, the suffix and flag a
\* lookup returns are those of a matching exception rule, also when a
\* matching normal or wildcard rule has more labels, is found at a longer
\* level or is stored before it.
C21_ExceptionPrevails ==
    Looked /\ ~ShortCircuits(domain)
           /\ Cardinality(Matching(rules, domain)) > 1
           /\ MatchingExceptions(rules, domain) # {} =>
        \E m \in MatchingExceptions(rules, domain) :
            /\ ret.suffix = SuffixOf(RuleAt(rules, domain, m), domain)
            /\ ret.icann = RuleAt(rules, domain, m).ICANN


-----------------------------------------------------------------------------
(* C22 *)

\* the matching entries whose rule has the most labels among the matching
\* rules
MostLabels(rulesInfo, d) ==
    {m \in Matching(rulesInfo, d) :
        \A n \in Matching(rulesInfo, d) :
            Labels(RuleAt(rulesInfo, d, n).DottedName)
                <= Labels(RuleAt(rulesInfo, d, m).DottedName)}

\* C22: most labels prevail.  Whenever several rules match the domain and
\* none of them is an exception, the suffix and flag a lookup returns are
\* those of a matching rule with the most labels, in whatever order the
\* rules stood in the list; with both "ck" and "*.ck" in the table the
\* suffix of "a.ck" is "a.ck".
C22_MostLabelsPrevail ==
    Looked /\ ~ShortCircuits(domain)
           /\ Cardinality(Matching(rules, domain)) > 1
           /\ MatchingExceptions(rules, domain) = {} =>
        /\ \E m \in MostLabels(rules, domain) :
              /\ ret.suffix = SuffixOf(RuleAt(rules, domain, m), domain)
              /\ ret.icann = RuleAt(rules, domain, m).ICANN
        /\ rules = TableOf(CkTldList) /\ domain = <<"a", ".", "c", "k">> => ret.suffix = <<"a", ".", "c", "k">>

-----------------------------------------------------------------------------
(* C23 *)

\* the checks made, as a set
Compared == {compared[n] : n \in 1..Len(compared)}

\* the matching entry searchList meets first: the first position, in stored
\* order, that applies at the longest level at which any applies
FirstMatch(rulesInfo, d) ==
    LET k == LongestApplicable(rulesInfo, d)
    IN  [level |-> k,
         pos |-> CHOOSE j \in ApplicableAt(rulesInfo, d, k) :
                     \A i \in ApplicableAt(rulesInfo, d, k) : j <= i]

\* every candidate stored under the signature of a level of d
AllCandidates(rulesInfo, d) ==
    UNION {{[level |-> k, pos |-> j] :
                j \in 1..Len(Candidates(rulesInfo, SliceFrom(d, k)))} :
              k \in LevelStarts(d)}

C23_WitnessAfterFailure ==
    /\ pc = "done" /\ op = "searchList"
    /\ rules = TableOf(<< <<"b", ".", "a">>, <<"b", "a">> >>)
    /\ domain = <<"b", "a">>
    /\ compared = << [level |-> 0, pos |-> 1], [level |-> 0, pos |-> 2] >>
    /\ ret = [suffix |-> <<"b", "a">>, icann |-> FALSE, found |-> TRUE]

-----------------------------------------------------------------------------
(* C24 *)

\* C24: exception result.  Whenever the rule searchList answers from is an
\* exception, of one label or of more, the returned public suffix is the
\* rule's text without its "!" marker and with its leftmost label removed,
\* and the "!" marker is not in it.
C24_ExceptionResult ==
    pc = "done" /\ op = "searchList" /\ ~ShortCircuits(domain)
                /\ Covered(rules, domain) =>
        LET rule == RuleAt(rules, domain, FirstMatch(rules, domain))
        IN  rule.RuleType = exception =>
                /\ ret.suffix = DropLeftmostLabel(Unmarked(rule))
                /\ \A i \in 1..Len(ret.suffix) : ret.suffix[i] # "!"

-----------------------------------------------------------------------------
(* C25 *)

\* line i of the raw list r without the white space around it
Trimmed(r, i) == TrimSpace(r[i])

\* line i holds one of the two section markers
IsMarkerLine(r, i) ==
    Contains(Trimmed(r, i), icannBegin) \/ Contains(Trimmed(r, i), icannEnd)

\* line i is a rule line: no marker in it, not empty and no comment
IsRuleLine(r, i) ==
    /\ ~IsMarkerLine(r, i)
    /\ Trimmed(r, i) # <<>>
    /\ ~HasPrefix(Trimmed(r, i), <<"/", "/">>)

\* the rule lines of r
RuleLines(r) == {i \in 1..Len(r) : IsRuleLine(r, i)}

\* the text of the rule of line i: the line in its ASCII form
RuleText(r, i) == ToASCII(Trimmed(r, i)).line

\* the text without its dots and without a leading "*" or "!"
KeyOf(text) ==
    LET stripped == RemoveDots(text)
    IN  IF HasPrefix(stripped, <<"*">>) \/ HasPrefix(stripped, <<"!">>)
        THEN Tail(stripped)
        ELSE stripped

\* where the rule of line i stands in the table: under its key, after the
\* rules of the earlier lines with the same key
PlaceOf(r, i) ==
    [key |-> KeyOf(RuleText(r, i)),
     pos |-> Cardinality({j \in RuleLines(r) :
                             j <= i /\ KeyOf(RuleText(r, j)) = KeyOf(RuleText(r, i))})]

\* the marker lines before line i
MarkersBefore(r, i) == {j \in 1..(i - 1) : IsMarkerLine(r, j)}

\* the most recent marker line before line i holds the BEGIN marker
InICANN(r, i) ==
    /\ MarkersBefore(r, i) # {}
    /\ LET last == CHOOSE j \in MarkersBefore(r, i) :
                       \A m \in MarkersBefore(r, i) : m <= j
       IN  Contains(Trimmed(r, last), icannBegin)

\* the goroutines whose call of newList has returned a table
Built == {t \in Threads : /\ thread[t].pc = "done"
                          /\ thread[t].op = "newList"
                          /\ ~thread[t].ret.err}

\* the number of rules of a table
NumberOfRules(rulesInfo) ==
    LET RECURSIVE Sum(_)
        Sum(K) == IF K = {}
                  THEN 0
                  ELSE LET k == CHOOSE k \in K : TRUE
                       IN  Len(rulesInfo.Map[k]) + Sum(K \ {k})
    IN  Sum(DOMAIN rulesInfo.Map)

\* C25: builder section tagging.  In the table newList builds, the rule of a
\* line is tagged ICANN exactly when the most recent marker line before it
\* holds "BEGIN ICANN DOMAINS", and not tagged otherwise, also before any
\* marker; a marker counts wherever it stands in its line, also in a "//"
\* comment, and a line holding a marker never becomes a rule: the table has
\* one rule for each line that is neither a marker line, a comment nor
\* empty, and no rule's text holds a marker.
C25_SectionTagging ==
    \A t \in Built :
        LET r == thread[t].arg.r
            T == thread[t].ret.rulesInfo
        IN  /\ \A i \in RuleLines(r) :
                  LET p == PlaceOf(r, i)
                  IN  /\ p.key \in DOMAIN T.Map
                      /\ p.pos <= Len(T.Map[p.key])
                      /\ T.Map[p.key][p.pos].ICANN = InICANN(r, i)
            /\ NumberOfRules(T) = Cardinality(RuleLines(r))
            /\ \A rule \in AllRules(T) :
                  /\ ~Contains(rule.DottedName, icannBegin)
                  /\ ~Contains(rule.DottedName, icannEnd)

\* newList has built a table from a BEGIN marker in a comment, a rule, and
\* an END marker in a comment followed by a rule: the first rule is tagged,
\* the second is not
C25_Witness ==
    \E t \in Built :
        /\ thread[t].arg.r =
              << <<"/", "/", " ", "=", "=", "=", icannBegin, "=", "=", "=">>,
                 <<"a">>,
                 <<"/", "/", " ", "=", "=", "=", icannEnd, "=", "=", "=">> >>
        /\ thread[t].ret.rulesInfo.Map[<<"a">>][1].ICANN
        /\ NumberOfRules(thread[t].ret.rulesInfo) = 1

\* a rule before any marker is not tagged, and a rule after the line holding
\* both markers is
C25_WitnessBothMarkers ==
    \E t \in Built :
        /\ thread[t].arg.r = << <<"a">>, <<icannEnd, " ", icannBegin>>, <<"*", ".", "a">> >>
        /\ thread[t].ret.rulesInfo.Map[<<"a">>] =
              << [DottedName |-> <<"a">>, RuleType |-> normal, ICANN |-> FALSE],
                 [DottedName |-> <<"*", ".", "a">>, RuleType |-> wildcard, ICANN |-> TRUE] >>

-----------------------------------------------------------------------------
(* C26 *)

\* the kind the text of a rule stands for, by the first character of the
\* text without its dots
KindOf(text) ==
    CASE HasPrefix(RemoveDots(text), <<"*">>) -> wildcard
      [] HasPrefix(RemoveDots(text), <<"!">>) -> exception
      [] OTHER -> normal

\* C26: builder table structure.  In the table newList builds, every rule line
\* has one rule of its own: under the key that is the line without its dots
\* and without a leading "*" or "!", with the line as its text and the kind
\* wildcard, exception or normal as the dot-stripped line starts with "*",
\* with "!" or with neither.  The rules of one key stand in the order of
\* their lines, none is dropped or overwritten: the keys of the table are the
\* keys of the rule lines and the table has as many rules as the list has
\* rule lines.
C26_TableStructure ==
    \A t \in Built :
        LET r == thread[t].arg.r
            T == thread[t].ret.rulesInfo
        IN  /\ DOMAIN T.Map = {KeyOf(RuleText(r, i)) : i \in RuleLines(r)}
            /\ \A k \in DOMAIN T.Map :
                  Len(T.Map[k]) =
                      Cardinality({i \in RuleLines(r) : KeyOf(RuleText(r, i)) = k})
            /\ \A i \in RuleLines(r) :
                  LET p == PlaceOf(r, i)
                      rule == T.Map[p.key][p.pos]
                  IN  /\ rule.DottedName = RuleText(r, i)
                      /\ rule.RuleType = KindOf(RuleText(r, i))
            /\ NumberOfRules(T) = Cardinality(RuleLines(r))

\* newList has built a table from "*.a", "a" and "*.a": the key "a" holds the
\* three rules in the order of their lines
C26_Witness ==
    \E t \in Built :
        /\ thread[t].arg.r = << <<"*", ".", "a">>, <<"a">>, <<"*", ".", "a">> >>
        /\ DOMAIN thread[t].ret.rulesInfo.Map = { <<"a">> }
        /\ thread[t].ret.rulesInfo.Map[<<"a">>] =
              << [DottedName |-> <<"*", ".", "a">>, RuleType |-> wildcard, ICANN |-> FALSE],
                 [DottedName |-> <<"a">>, RuleType |-> normal, ICANN |-> FALSE],
                 [DottedName |-> <<"*", ".", "a">>, RuleType |-> wildcard, ICANN |-> FALSE] >>

\* an exception and a rule written between white space share the key "ba",
\* and a line that is not ASCII is stored in its Punycode form
C26_WitnessKinds ==
    \E t \in Built :
        /\ thread[t].arg.r = << <<"!", "b", ".", "a">>, <<" ", "b", ".", "a", "\t">>, <<"é">> >>
        /\ thread[t].ret.rulesInfo.Map[<<"b", "a">>] =
              << [DottedName |-> <<"!", "b", ".", "a">>, RuleType |-> exception, ICANN |-> FALSE],
                 [DottedName |-> <<"b", ".", "a">>, RuleType |-> normal, ICANN |-> FALSE] >>
        /\ thread[t].ret.rulesInfo.Map[<<"x", "n", "-", "-", "9", "c", "a">>][1].DottedName = <<"x", "n", "-", "-", "9", "c", "a">>

-----------------------------------------------------------------------------
(* C27 *)

\* the goroutines whose call of decomposeDomain has returned
Decomposed == {t \in Threads : /\ thread[t].pc = "done"
                               /\ thread[t].op = "decomposeDomain"}

\* the text after the first dot of a text that has one
AfterFirstDot(text) == SliceFrom(text, Index(text, ".") + 1)

\* C27: decomposition.  For a domain with k dots decomposeDomain returns,
\* from the emptied buffer, exactly k+1 entries: the first has the full
\* domain as its dottedName, each next one the previous dottedName without
\* everything up to and including its first dot, the last has no dot, and
\* the name of every entry is its dottedName without the dots.  The entries
\* are the levels of the domain and nothing else, whatever the buffer held
\* before.
C27_Decomposition ==
    \A t \in Decomposed :
        LET d == thread[t].arg.domain
            s == thread[t].ret
        IN  /\ Len(s) = Count(d, ".") + 1
            /\ s[1].dottedName = d
            /\ \A n \in 2..Len(s) :
                  /\ Count(s[n - 1].dottedName, ".") > 0
                  /\ s[n].dottedName = AfterFirstDot(s[n - 1].dottedName)
            /\ Count(s[Len(s)].dottedName, ".") = 0
            /\ \A n \in 1..Len(s) : s[n].name = RemoveDots(s[n].dottedName)
            /\ {s[n].dottedName : n \in 1..Len(s)} =
                  {SliceFrom(d, k) : k \in LevelStarts(d)}

\* decomposeDomain has returned the one entry of "com" from a buffer that
\* held the two entries of an earlier call
C27_Witness ==
    \E t \in Decomposed :
        /\ thread[t].arg.domain = <<"c", "o", "m">>
        /\ thread[t].arg.pooled = decomposeDomain(<<"b", ".", "a">>, <<>>)
        /\ thread[t].ret = << subdomain(<<"c", "o", "m">>, <<"c", "o", "m">>) >>

\* decomposeDomain has returned the three entries of "b.co.uk" from the
\* buffer the pool makes
C27_WitnessLevels ==
    \E t \in Decomposed :
        /\ thread[t].arg.domain = <<"b", ".", "c", "o", ".", "u", "k">>
        /\ thread[t].arg.pooled = newBuffer
        /\ thread[t].ret = << subdomain(<<"b", "c", "o", "u", "k">>, <<"b", ".", "c", "o", ".", "u", "k">>),
                              subdomain(<<"c", "o", "u", "k">>, <<"c", "o", ".", "u", "k">>),
                              subdomain(<<"u", "k">>, <<"u", "k">>) >>

-----------------------------------------------------------------------------
(* C28 *)

\* the number of levels decomposeDomain makes of d
NumberOfLevels(d) == Count(d, ".") + 1

\* C28 as stated: bounded work per lookup.  One call of searchList makes at
\* most one suffix comparison per label level of the domain: the number of
\* its comparisons never exceeds the number of decomposed levels.
C28_AsStated ==
    pc = "done" /\ op = "searchList" =>
        Len(compared) <= NumberOfLevels(domain)

\* C28: bounded work per lookup.  One call of searchList makes no suffix
\* comparison for a domain that is empty or ends in a dot, and otherwise at
\* most one per candidate stored under the signature of a level of the
\* domain, no candidate twice: the number of its comparisons never exceeds
\* the number of rules stored under the signatures of the decomposed levels,
\* and never the number of levels when no signature holds two rules.
C28_BoundedWork ==
    pc = "done" /\ op = "searchList" =>
        /\ ShortCircuits(domain) => compared = noneCompared
        /\ ~ShortCircuits(domain) =>
              /\ Compared \subseteq AllCandidates(rules, domain)
              /\ Cardinality(Compared) = Len(compared)
              /\ Len(compared) <= Cardinality(AllCandidates(rules, domain))
              /\ (\A k \in DOMAIN rules.Map : Len(rules.Map[k]) <= 1) =>
                    Len(compared) <= NumberOfLevels(domain)

\* searchList has made two comparisons for "a", a domain of one level: the
\* wildcard "*.a", stored first under the key "a", failed, and "a" answered
C28_Witness ==
    /\ pc = "done" /\ op = "searchList"
    /\ rules = TableOf(<< <<"*", ".", "a">>, <<"a">> >>)
    /\ domain = <<"a">>
    /\ NumberOfLevels(domain) = 1
    /\ Len(compared) = 2
    /\ ret = [suffix |-> <<"a">>, icann |-> FALSE, found |-> TRUE]

-----------------------------------------------------------------------------
(* C29 *)

\* C29: suffix-of-domain invariant.  For every domain and every built table
\* the string PublicSuffix returns is a string suffix of the domain, and
\* when it is shorter than the domain and a rule produced it, the character
\* of the domain right before it is a dot.
C29_SuffixOfDomain ==
    pc = "done" /\ op = "PublicSuffix" =>
        /\ HasSuffix(domain, ret.suffix)
        /\ Len(ret.suffix) < Len(domain) /\ ~ShortCircuits(domain)
                                         /\ Covered(rules, domain) =>
              domain[Len(domain) - Len(ret.suffix)] = "."

-----------------------------------------------------------------------------
(* C30 *)

\* EffectiveTLDPlusOne has returned a value and nil
PlusOneSucceeded ==
    /\ pc = "done" /\ op = "EffectiveTLDPlusOne"
    /\ ~IsPanic(ret)
    /\ ret.err = nil

C30_WitnessDefault ==
    /\ PlusOneSucceeded
    /\ rules = TableOf(CkOnlyList)
    /\ domain = <<"b", ".", "c", ".", "k", "o", "b", "e", ".", "j", "p">>
    /\ ~Covered(rules, domain)
    /\ ret.value = <<"k", "o", "b", "e", ".", "j", "p">>
=============================================================================
